---- MODULE Spec2Model ----
(***************************************************************************)
(* Persistent SSH sessions of src/index.ts: the session registry           *)
(* (activeSessions), the PersistentSession objects, the SSH connections    *)
(* they open, the commands they accept, and the tool handlers and          *)
(* transport/timer callbacks that act on them.                             *)
(*                                                                         *)
(* One action is one turn of the Node event loop: a tool handler or a      *)
(* transport/timer callback, together with the promise continuations       *)
(* (microtasks) it releases, which run before any other callback.          *)
(***************************************************************************)
EXTENDS Integers, Sequences, FiniteSets, TLC

\* ------------------------------------------------------------------ bounds
MaxObj == 1      \* PersistentSession objects alive at once
MaxConn == 2     \* SSHClient objects alive at once
MaxBuf == 1      \* tokens of ordinary output waiting in a session buffer
MaxStale == 1    \* write callbacks of settled commands still due, per session
MaxOut == 2      \* tokens a command prints before its marker line (FeedSpec)
MaxListed == 1   \* sessions in the registry that list-sessions prints (ListSpec)

SessionIds == {"s1"}
Commands == {"pwd"}
Errors == {"E1", "E2"}        \* what a connection or a shell request fails with
WriteErrors == {"W1"}         \* what a shell.write fails with
ExitCodes == {"0", "7"}

NoErr == "none"
Closed == "SSH session closed"
NL == "\n"
CR == "\r"
Ready == "__MCP_READY__"
Out == "a"
Noise == "b"

\* wire is the text the remote shell is sending in answer to the pending
\* command, how much of it has arrived (pos) and where the chunk that
\* arrived last began (cut); it is used by FeedSpec only.
VARIABLES activeSessions, sessions, conns, last, wire

\* listing is what list-sessions is given and what it returns (ListSpec only).
\* hostsFile is hosts.json and hostCalls the host tool calls in progress
\* (HostSpec and EditSpec only).  sanitizing is a command given to
\* sanitizeCommand and what it made of it (SanitizeSpec only).  oneShot is
\* one call of the one-shot execSshCommand (OneShotSpec only).
VARIABLES listing, hostsFile, hostCalls, sanitizing, oneShot

\* The variables of the session machinery, and those beside it.
sessionVars == <<activeSessions, sessions, conns, last, wire>>
sideVars == <<listing, hostsFile, hostCalls, sanitizing, oneShot>>

vars ==
  <<activeSessions, sessions, conns, last, wire, listing, hostsFile, hostCalls, sanitizing,
    oneShot>>

\* ------------------------------------------------------- text as token lists
\* Stream text is a sequence of tokens: one-character strings, and the two
\* halves of a marker (line 457), the fixed prefix and the UUID with its
\* suffix, so that a chunk of stream data can end inside a marker.  Markers
\* hold random UUIDs, so the marker of the command in the slot differs from
\* the marker of every earlier command: Marker is the former, StaleMarker
\* stands for any of the latter.
Prefix == "__MCP_DONE__"
Uuid == "uuid__"
StaleUuid == "old__"
Marker == <<Prefix, Uuid>>
StaleMarker == <<Prefix, StaleUuid>>

Whitespace == {" ", NL, CR, "\t"}

IndexOf(seq, tok) ==
  IF \E i \in 1..Len(seq) : seq[i] = tok
  THEN CHOOSE i \in 1..Len(seq) : seq[i] = tok /\ \A j \in 1..(i - 1) : seq[j] # tok
  ELSE 0

\* String.prototype.indexOf for a pattern of several tokens.
IndexOfSeq(seq, pat) ==
  LET hits == {i \in 1..(Len(seq) - Len(pat) + 1) : SubSeq(seq, i, i + Len(pat) - 1) = pat}
  IN IF hits = {} THEN 0 ELSE CHOOSE i \in hits : \A j \in hits : i <= j

RECURSIVE RemoveAll(_, _)
RemoveAll(seq, tok) ==
  IF seq = <<>> THEN <<>>
  ELSE IF Head(seq) = tok THEN RemoveAll(Tail(seq), tok)
  ELSE <<Head(seq)>> \o RemoveAll(Tail(seq), tok)

RECURSIVE DropLeadingSpace(_)
DropLeadingSpace(seq) ==
  IF seq # <<>> /\ Head(seq) \in Whitespace THEN DropLeadingSpace(Tail(seq)) ELSE seq

RECURSIVE RemoveReady(_)
RemoveReady(seq) ==
  IF seq = <<>> THEN <<>>
  ELSE IF Head(seq) = Ready THEN RemoveReady(DropLeadingSpace(Tail(seq)))
  ELSE <<Head(seq)>> \o RemoveReady(Tail(seq))

RECURSIVE TrimEnd(_)
TrimEnd(seq) ==
  IF seq # <<>> /\ seq[Len(seq)] \in Whitespace
  THEN TrimEnd(SubSeq(seq, 1, Len(seq) - 1)) ELSE seq

Trim(seq) == TrimEnd(DropLeadingSpace(seq))

Digits == {"0", "1", "2", "3", "4", "5", "6", "7", "8", "9"}

DigitVal(d) ==
  CASE d = "0" -> 0 [] d = "1" -> 1 [] d = "2" -> 2 [] d = "3" -> 3 [] d = "4" -> 4
    [] d = "5" -> 5 [] d = "6" -> 6 [] d = "7" -> 7 [] d = "8" -> 8 [] d = "9" -> 9

RECURSIVE DigitsValue(_, _)
DigitsValue(seq, acc) ==
  IF seq = <<>> \/ Head(seq) \notin Digits THEN acc
  ELSE DigitsValue(Tail(seq), acc * 10 + DigitVal(Head(seq)))

\* The exit code as it would be if a text that is no number were reported
\* as the failure code 1.
ParseExitCode_nanIsFailure(text) ==
  LET t == DropLeadingSpace(text)
      neg == t # <<>> /\ Head(t) = "-"
      body == IF t # <<>> /\ Head(t) \in {"-", "+"} THEN Tail(t) ELSE t
  IN IF body = <<>> \/ Head(body) \notin Digits THEN 1
     ELSE IF neg THEN 0 - DigitsValue(body, 0) ELSE DigitsValue(body, 0)

\* Number.parseInt(text, 10), with NaN already replaced by 0 as line 527 does.
ParseExitCode(text) ==
  LET t == DropLeadingSpace(text)
      neg == t # <<>> /\ Head(t) = "-"
      body == IF t # <<>> /\ Head(t) \in {"-", "+"} THEN Tail(t) ELSE t
  IN IF body = <<>> \/ Head(body) \notin Digits THEN 0
     ELSE IF neg THEN 0 - DigitsValue(body, 0) ELSE DigitsValue(body, 0)

\* ------------------------------------------------------------ object shapes
\* Objects live in numbered slots; a slot whose object can no longer act or
\* be observed is free and may hold a later object (see Forget).

\* The pendingCommand slot (lines 361-365): null, or the accepted command.
\*   wstage: "cmd" (command written, callback due), "marker" (printf written,
\*           callback due), "done"
\*   mstream: the stream the printf statement was written to (0: not written)
\*   settled: calls of the promise's resolve/reject so far
Null == [set |-> FALSE, marker |-> <<>>, wstage |-> "none", mstream |-> 0, settled |-> 0]

NewPending == [set |-> TRUE, marker |-> Marker, wstage |-> "cmd", mstream |-> 0, settled |-> 0]

\* A PersistentSession (lines 357-376).  conn and shell name the SSHClient
\* whose connection, respectively whose shell stream, the field holds (0 is
\* null).  Beside the fields of the class:
\*   notified: calls of the onDispose callback so far, saturating at 2
\*   unsettled: promises returned by execute and not yet settled, saturating at 2
\*   staleWrites: commands no longer in the slot whose write callbacks are due
\*   sinceArmed: 1 when a connect has succeeded or a command has completed
\*               since setTimeout was last called for the inactivity timer
NewSession(id) ==
  [used |-> TRUE, id |-> id, conn |-> 0, shell |-> 0, buffer |-> <<>>, pendingCommand |-> Null,
   inactivityTimer |-> FALSE, disposed |-> FALSE, lastCommand |-> "", notified |-> 0,
   unsettled |-> 0, staleWrites |-> 0, sinceArmed |-> 0]

FreeSession == [NewSession("") EXCEPT !.used = FALSE]

\* One SSHClient made by ensureConnected, with the promise its caller awaits.
\*   phase: "connecting" (before 'ready'), "shellReq" (conn.shell called),
\*          "open" (shell stream delivered), "idle" (no shell), "dead"
\*   listeners: the conn's 'ready'/'error'/'end' listeners are attached
\*   streamListeners: the stream's 'data'/'close' listeners are attached
\*   waiting: the promise is unsettled, its caller suspended
\*   kind/cmd: that caller ("start", "exec", "legacy") and its command
NewConn(o, kind, cmd) ==
  [owner |-> o, phase |-> "connecting", listeners |-> TRUE, streamListeners |-> FALSE,
   waiting |-> TRUE, kind |-> kind, cmd |-> cmd]

FreeConn ==
  [owner |-> 0, phase |-> "free", listeners |-> FALSE, streamListeners |-> FALSE,
   waiting |-> FALSE, kind |-> "none", cmd |-> ""]

\* The lowest free slot of f, 0 when every slot is taken.
FreeSlot(f, free) ==
  IF \E i \in DOMAIN f : f[i] = free
  THEN CHOOSE i \in DOMAIN f : f[i] = free /\ \A j \in 1..(i - 1) : f[j] # free
  ELSE 0

NoSettle == [o |-> 0, how |-> "none", err |-> NoErr, output |-> <<>>, exitCode |-> 0, count |-> 0]

\* The program state as one value, so that a handler's statements compose.
\* Beside the program's own state it carries what the current step hands to
\* its callers:
\*   calls: the execute/ensureConnected invocations made in the step
\*   res: the result of the last call evaluated
\*   settle: the command promise settled in the step
\*   notify: the session whose onDispose ran in the step, and how many times
\*           it has run for it
\*   full: an object was needed and no slot was free
State ==
  [reg |-> activeSessions, sess |-> sessions, conns |-> conns, wire |-> wire,
   calls |-> <<>>, res |-> "none", settle |-> NoSettle, notify |-> <<0, 0>>, full |-> FALSE]

Call(fn, o, pre, res, opened, wrote) ==
  [fn |-> fn, o |-> o, pre |-> pre, res |-> res, opened |-> opened, wrote |-> wrote]

\* ------------------------------------------------- PersistentSession methods
\* The command in the slot of o leaves it: its promise has been settled, and
\* the write callbacks it still has due stay due.
vacate(S, o) ==
  LET p == S.sess[o].pendingCommand
  IN [S EXCEPT !.sess[o].pendingCommand = Null,
               !.sess[o].staleWrites =
                  IF p.wstage \in {"cmd", "marker"} /\ @ < MaxStale THEN @ + 1 ELSE @]

\* pendingCommand.reject(err)
rejectCmd(S, o, err) ==
  [S EXCEPT !.sess[o].pendingCommand.settled = @ + 1,
            !.sess[o].unsettled = IF @ > 0 THEN @ - 1 ELSE 0,
            !.settle = [o |-> o, how |-> "rejected", err |-> err, output |-> <<>>,
                        exitCode |-> 0, count |-> S.sess[o].pendingCommand.settled + 1]]

\* What the handler awaiting execute makes of its result (lines 272-277 and
\* 328-333): an McpError carrying the exit code and the output when the exit
\* code is not 0, the output as content otherwise.
toolResult(code) == IF code # 0 THEN "error" ELSE "content"

\* resolveCmd as it would be if the handler returned the output as content
\* whatever the exit code.
resolveCmd_ignoresExitCode(S, o, out, code, count) ==
  [S EXCEPT !.sess[o].unsettled = IF @ > 0 THEN @ - 1 ELSE 0,
            !.res = "content",
            !.settle = [o |-> o, how |-> "resolved", err |-> NoErr, output |-> out,
                        exitCode |-> code, count |-> count + 1]]

\* resolve({output, exitCode}) of the command that was in the slot, and the
\* continuation of the handler that awaits it.
resolveCmd(S, o, out, code, count) ==
  [S EXCEPT !.sess[o].unsettled = IF @ > 0 THEN @ - 1 ELSE 0,
            !.res = toolResult(code),
            !.settle = [o |-> o, how |-> "resolved", err |-> NoErr, output |-> out,
                        exitCode |-> code, count |-> count + 1]]

\* Lines 489-497: the timer, if any, is cleared and a new one is set for the
\* whole of timeoutMs.
resetInactivityTimer(S, o) ==
  [S EXCEPT !.sess[o].inactivityTimer = TRUE, !.sess[o].sinceArmed = 0]

\* A connect of session o has succeeded, or a command of it has completed.
active(S, o) == [S EXCEPT !.sess[o].sinceArmed = 1]

\* The disposal callback as it would be if it emptied the registry.
onDispose_clearsRegistry(S, o) ==
  LET n == IF S.sess[o].notified < 2 THEN S.sess[o].notified + 1 ELSE 2
  IN [S EXCEPT !.sess[o].notified = n, !.notify = <<o, n>>,
               !.reg = [id \in DOMAIN S.reg |-> 0]]

\* The disposal callback as it would be without the comparison of line 346.
onDispose_noCompare(S, o) ==
  LET n == IF S.sess[o].notified < 2 THEN S.sess[o].notified + 1 ELSE 2
  IN [S EXCEPT !.sess[o].notified = n, !.notify = <<o, n>>, !.reg[S.sess[o].id] = 0]

\* The disposal callback as it would be if it left the registry alone.
onDispose_keepsEntry(S, o) ==
  LET n == IF S.sess[o].notified < 2 THEN S.sess[o].notified + 1 ELSE 2
  IN [S EXCEPT !.sess[o].notified = n, !.notify = <<o, n>>]

\* The callback given to the constructor by getOrCreateSession (lines 345-349).
onDispose(S, o) ==
  LET id == S.sess[o].id
      n == IF S.sess[o].notified < 2 THEN S.sess[o].notified + 1 ELSE 2
      S1 == [S EXCEPT !.sess[o].notified = n, !.notify = <<o, n>>]
  IN IF S1.reg[id] = o THEN [S1 EXCEPT !.reg[id] = 0] ELSE S1

\* cleanup as it would be if it rejected the pending command with the
\* generic error whatever the error it was given.
cleanup_genericError(S, o, err) ==
  LET s == S.sess[o]
      S1 == [S EXCEPT !.sess[o].inactivityTimer = FALSE]
      S2 == IF s.shell # 0
            THEN [S1 EXCEPT !.conns[s.shell].streamListeners = FALSE, !.sess[o].shell = 0]
            ELSE S1
      S3 == IF s.conn # 0
            THEN [S2 EXCEPT !.conns[s.conn].listeners = FALSE, !.sess[o].conn = 0]
            ELSE S2
      S4 == IF s.pendingCommand.set
            THEN vacate(rejectCmd(S3, o, Closed), o)
            ELSE S3
      S5 == [S4 EXCEPT !.sess[o].buffer = <<>>]
  IN IF s.disposed THEN onDispose(S5, o) ELSE S5

\* cleanup as it would be if it emptied the pendingCommand slot without
\* calling reject.
cleanup_dropsPending(S, o, err) ==
  LET s == S.sess[o]
      S1 == [S EXCEPT !.sess[o].inactivityTimer = FALSE]
      S2 == IF s.shell # 0
            THEN [S1 EXCEPT !.conns[s.shell].streamListeners = FALSE, !.sess[o].shell = 0]
            ELSE S1
      S3 == IF s.conn # 0
            THEN [S2 EXCEPT !.conns[s.conn].listeners = FALSE, !.sess[o].conn = 0]
            ELSE S2
      S4 == IF s.pendingCommand.set THEN vacate(S3, o) ELSE S3
      S5 == [S4 EXCEPT !.sess[o].buffer = <<>>]
  IN IF s.disposed THEN onDispose(S5, o) ELSE S5

cleanup(S, o, err) ==
  LET s == S.sess[o]
      S1 == [S EXCEPT !.sess[o].inactivityTimer = FALSE]
      S2 == IF s.shell # 0
            THEN [S1 EXCEPT !.conns[s.shell].streamListeners = FALSE, !.sess[o].shell = 0]
            ELSE S1
      S3 == IF s.conn # 0
            THEN [S2 EXCEPT !.conns[s.conn].listeners = FALSE, !.sess[o].conn = 0]
            ELSE S2
      S4 == IF s.pendingCommand.set
            THEN vacate(rejectCmd(S3, o, IF err = NoErr THEN Closed ELSE err), o)
            ELSE S3
      S5 == [S4 EXCEPT !.sess[o].buffer = <<>>]
  IN IF s.disposed THEN onDispose(S5, o) ELSE S5

\* dispose as it would be if it set the flag and did not call cleanup.
dispose_flagOnly(S, o) ==
  IF S.sess[o].disposed THEN S
  ELSE [S EXCEPT !.sess[o].disposed = TRUE]

dispose(S, o) ==
  IF S.sess[o].disposed THEN S
  ELSE cleanup([S EXCEPT !.sess[o].disposed = TRUE], o, NoErr)

rejectPending(S, o, err) ==
  IF ~S.sess[o].pendingCommand.set THEN S
  ELSE vacate(rejectCmd(S, o, err), o)

\* A marker left in the buffer is the marker of no later command.
Outdated(seq) == [i \in 1..Len(seq) |-> IF seq[i] = Uuid THEN StaleUuid ELSE seq[i]]

\* processPending as it would be if it emptied the buffer where line 522
\* keeps what follows the marker line.
processPending_dropsRemaining(S, o) ==
  LET s == S.sess[o]
      marker == s.pendingCommand.marker
      markerIndex == IndexOfSeq(s.buffer, marker)
      afterMarker == SubSeq(s.buffer, markerIndex + Len(marker), Len(s.buffer))
      newlineIndex == IndexOf(afterMarker, NL)
      exitCodeText == Trim(SubSeq(afterMarker, 1, newlineIndex - 1))
      output == RemoveAll(SubSeq(s.buffer, 1, markerIndex - 1), CR)
      finalOutput == TrimEnd(RemoveReady(output))
  IN IF ~s.pendingCommand.set THEN S
     ELSE IF markerIndex = 0 THEN S
     ELSE IF newlineIndex = 0 THEN S
     ELSE resetInactivityTimer(active(
            resolveCmd(vacate([S EXCEPT !.sess[o].buffer = <<>>], o),
                       o, finalOutput, ParseExitCode(exitCodeText), s.pendingCommand.settled), o), o)

\* processPending as it would be without the resetInactivityTimer of line 528.
processPending_noRearm(S, o) ==
  LET s == S.sess[o]
      marker == s.pendingCommand.marker
      markerIndex == IndexOfSeq(s.buffer, marker)
      afterMarker == SubSeq(s.buffer, markerIndex + Len(marker), Len(s.buffer))
      newlineIndex == IndexOf(afterMarker, NL)
      exitCodeText == Trim(SubSeq(afterMarker, 1, newlineIndex - 1))
      remaining == SubSeq(afterMarker, newlineIndex + 1, Len(afterMarker))
      output == RemoveAll(SubSeq(s.buffer, 1, markerIndex - 1), CR)
      finalOutput == TrimEnd(RemoveReady(output))
  IN IF ~s.pendingCommand.set THEN S
     ELSE IF markerIndex = 0 THEN S
     ELSE IF newlineIndex = 0 THEN S
     ELSE active(
            resolveCmd(vacate([S EXCEPT !.sess[o].buffer = Outdated(remaining)], o),
                       o, finalOutput, ParseExitCode(exitCodeText), s.pendingCommand.settled), o)

processPending(S, o) ==
  LET s == S.sess[o]
      marker == s.pendingCommand.marker
      markerIndex == IndexOfSeq(s.buffer, marker)
      afterMarker == SubSeq(s.buffer, markerIndex + Len(marker), Len(s.buffer))
      newlineIndex == IndexOf(afterMarker, NL)
      exitCodeText == Trim(SubSeq(afterMarker, 1, newlineIndex - 1))
      remaining == SubSeq(afterMarker, newlineIndex + 1, Len(afterMarker))
      output == RemoveAll(SubSeq(s.buffer, 1, markerIndex - 1), CR)
      finalOutput == TrimEnd(RemoveReady(output))
  IN IF ~s.pendingCommand.set THEN S
     ELSE IF markerIndex = 0 THEN S
     ELSE IF newlineIndex = 0 THEN S
     ELSE resetInactivityTimer(active(
            resolveCmd(vacate([S EXCEPT !.sess[o].buffer = Outdated(remaining)], o),
                       o, finalOutput, ParseExitCode(exitCodeText), s.pendingCommand.settled), o), o)

\* ensureConnected as it would be without the disposed check of line 391.
ensureConnected_noDisposedCheck(S, o, kind, cmd) ==
  LET s == S.sess[o]
      c == FreeSlot(S.conns, FreeConn)
  IN IF s.conn # 0 /\ s.shell # 0
     THEN [S EXCEPT !.res = "ready",
                    !.calls = Append(@, Call("ensureConnected", o, s.disposed, "ready", FALSE, FALSE))]
     ELSE IF c = 0 THEN [S EXCEPT !.full = TRUE]
     ELSE [S EXCEPT !.conns[c] = NewConn(o, kind, cmd),
                    !.sess[o].conn = c,
                    !.res = "await",
                    !.calls = Append(@, Call("ensureConnected", o, s.disposed, "await", TRUE, FALSE))]

\* ensureConnected as it would be without the early return of lines 394-396.
ensureConnected_noConnectedCheck(S, o, kind, cmd) ==
  LET s == S.sess[o]
      c == FreeSlot(S.conns, FreeConn)
  IN IF s.disposed
     THEN [S EXCEPT !.res = "disposed",
                    !.calls = Append(@, Call("ensureConnected", o, s.disposed, "disposed", FALSE, FALSE))]
     ELSE IF c = 0 THEN [S EXCEPT !.full = TRUE]
     ELSE [S EXCEPT !.conns[c] = NewConn(o, kind, cmd),
                    !.sess[o].conn = c,
                    !.res = "await",
                    !.calls = Append(@, Call("ensureConnected", o, s.disposed, "await", TRUE, FALSE))]

\* ensureConnected up to its first suspension (lines 390-438).  res:
\* "disposed" (throws), "ready" (returns), "await" (a new SSHClient was made
\* and stored in this.conn, and the caller waits on its promise).
ensureConnected(S, o, kind, cmd) ==
  LET s == S.sess[o]
      c == FreeSlot(S.conns, FreeConn)
  IN IF s.disposed
     THEN [S EXCEPT !.res = "disposed",
                    !.calls = Append(@, Call("ensureConnected", o, s.disposed, "disposed", FALSE, FALSE))]
     ELSE IF s.conn # 0 /\ s.shell # 0
     THEN [S EXCEPT !.res = "ready",
                    !.calls = Append(@, Call("ensureConnected", o, s.disposed, "ready", FALSE, FALSE))]
     ELSE IF c = 0 THEN [S EXCEPT !.full = TRUE]
     ELSE [S EXCEPT !.conns[c] = NewConn(o, kind, cmd),
                    !.sess[o].conn = c,
                    !.res = "await",
                    !.calls = Append(@, Call("ensureConnected", o, s.disposed, "await", TRUE, FALSE))]

\* executeBody as it would be without the busy check of line 449.
executeBody_noBusyCheck(S, o, cmd) ==
  LET s == S.sess[o]
      S1 == resetInactivityTimer([S EXCEPT !.sess[o].lastCommand = cmd], o)
  IN IF s.shell = 0 THEN [S EXCEPT !.res = "notReady"]
     ELSE [S1 EXCEPT !.sess[o].pendingCommand = NewPending,
                     !.sess[o].buffer = Outdated(@),
                     !.sess[o].unsettled = IF @ < 2 THEN @ + 1 ELSE 2,
                     !.res = "accepted"]

\* execute after `await this.ensureConnected()` has returned (lines 446-478).
executeBody(S, o, cmd) ==
  LET s == S.sess[o]
      S1 == resetInactivityTimer([S EXCEPT !.sess[o].lastCommand = cmd], o)
  IN IF s.shell = 0 THEN [S EXCEPT !.res = "notReady"]
     ELSE IF s.pendingCommand.set THEN [S EXCEPT !.res = "busy"]
     ELSE [S1 EXCEPT !.sess[o].pendingCommand = NewPending,
                     !.sess[o].buffer = Outdated(@),
                     !.sess[o].unsettled = IF @ < 2 THEN @ + 1 ELSE 2,
                     !.res = "accepted"]

\* execute from its call to its first suspension or its result (lines 443-479).
execute(S, o, cmd) ==
  LET pre == S.sess[o].disposed
      S1 == ensureConnected(S, o, "exec", cmd)
      S2 == IF S1.res = "ready" THEN executeBody(S1, o, cmd) ELSE S1
  IN [S2 EXCEPT !.calls = Append(@, Call("execute", o, pre, S2.res,
                                          S1.res = "await", S2.res = "accepted"))]

\* ------------------------------------------------------------------ registry
getOrCreateSession(S, id, forceNew, kind, cmd) ==
  LET old == S.reg[id]
      S1 == IF old # 0 /\ forceNew THEN [dispose(S, old) EXCEPT !.reg[id] = 0] ELSE S
      o == IF S1.reg[id] # 0 THEN S1.reg[id] ELSE FreeSlot(S1.sess, FreeSession)
      S2 == IF S1.reg[id] = 0
            THEN [S1 EXCEPT !.sess[o] = NewSession(id), !.reg[id] = o]
            ELSE S1
  IN IF o = 0 THEN [S EXCEPT !.full = TRUE] ELSE ensureConnected(S2, o, kind, cmd)

\* The promise of connection c is settled: its caller no longer waits.
released(S, c) == [S EXCEPT !.conns[c].waiting = FALSE, !.conns[c].kind = "none", !.conns[c].cmd = ""]

\* The continuations released when the promise of connection c resolves:
\* the tail of ensureConnected (line 440), then the caller's own.
resume(S, c) ==
  LET k == S.conns[c]
      o == k.owner
      S1 == resetInactivityTimer(active(released(S, c), o), o)
  IN IF ~k.waiting THEN S
     ELSE CASE k.kind = "start" -> [S1 EXCEPT !.res = "ok"]
            [] k.kind = "exec" ->
                 LET E == executeBody(S1, o, k.cmd)
                 IN [E EXCEPT !.calls = Append(@, Call("resumeExecute", o, FALSE, E.res,
                                                       FALSE, E.res = "accepted"))]
            [] k.kind = "legacy" -> execute(S1, o, k.cmd)

\* handleError of connection c (lines 402-405).
handleError(S, c, err) ==
  LET S1 == cleanup(S, S.conns[c].owner, err)
  IN IF S1.conns[c].waiting THEN [released(S1, c) EXCEPT !.res = err] ELSE S1

\* ---------------------------------------------------------------- the steps
\* A connection with no callback left to run.
Spent(k) ==
  /\ k.phase \notin {"free", "shellReq"}
  /\ ~k.streamListeners
  /\ (k.phase = "dead" \/ ~k.listeners)

\* Free the slots of the objects that nothing can reach any more.
Forget(S) ==
  LET cs == [c \in DOMAIN S.conns |-> IF Spent(S.conns[c]) THEN FreeConn ELSE S.conns[c]]
      ss == [o \in DOMAIN S.sess |->
               LET s == S.sess[o]
               IN IF /\ s.used
                     /\ s.disposed
                     /\ S.reg[s.id] # o
                     /\ ~s.inactivityTimer
                     /\ ~s.pendingCommand.set
                     /\ s.staleWrites = 0
                     /\ \A c \in DOMAIN cs : cs[c].owner # o
                  THEN FreeSession ELSE s]
  IN [S EXCEPT !.conns = cs, !.sess = ss]

\* The suspended callers whose promise can no longer be settled.
Lost(S) == {c \in DOMAIN S.conns : Spent(S.conns[c]) /\ S.conns[c].waiting}

\* Install the state S0 as the next state.
Commit(S0) ==
  LET S == Forget(S0)
  IN /\ ~S0.full
     /\ activeSessions' = S.reg
     /\ sessions' = S.sess
     /\ conns' = S.conns
     /\ wire' = S.wire
     /\ UNCHANGED sideVars
     /\ last' = [res |-> S.res, calls |-> S.calls, settle |-> S.settle, notify |-> S.notify,
                 lost |-> Lost(S0) # {}]

NoWire == [out |-> <<>>, code |-> <<>>, tail |-> <<>>, pos |-> 0, cut |-> 0]

NoListing == [a |-> <<>>, b |-> <<>>, textA |-> <<>>, textB |-> <<>>, listed |-> FALSE]

\* hosts.json: missing, truncated by a writeFile that has opened it and not
\* yet written, or holding a list of hosts.
NoFile == [state |-> "missing", hosts |-> <<>>]

CallSlots == {"c1", "c2"}

NoHost == [id |-> "", host |-> "", port |-> 0, username |-> "", password |-> "", keyPath |-> ""]

\* A host tool call: the tool, its arguments, where it stands, the list it
\* holds and its result.
NoCall == [op |-> "none", arg |-> NoHost, pc |-> "idle", hosts |-> <<>>, result |-> "none"]

\* A command as sanitizeCommand sees it: the whitespace characters at its
\* start and at its end, and the characters between them.
NoCommand == [lead |-> 0, length |-> 0, trail |-> 0]

NoSanitizing == [command |-> NoCommand, result |-> "none", value |-> NoCommand]

\* One call of the one-shot execSshCommand of unnamed/part_000 (lines
\* 197-275), as it is when `new Promise` has run its executor:
\*   conn: "connecting", "execReq" (conn.exec(command) called, its callback
\*         due), "stream" (the command's stream is open), "idle" (no stream)
\*   isResolved: the flag of line 201
\*   timeout: the timer of lines 204-226: "armed", "fired" or "cleared"
\*   settled: calls of resolve or reject so far, saturating at 2
\*   result: what the promise was settled with
\*   stdout, stderr: the stream has delivered data of that kind
\*   abort: the pkill command of line 213: "none", "requested" (its callback
\*          due), "stream" (its stream is open), "done"
\*   abortTimeout: the timer of lines 208-211
\*   ended: conn.end() has been called
\*   errors: 'error' events of the connection so far
NewOneShot ==
  [conn |-> "connecting", isResolved |-> FALSE, timeout |-> "armed", settled |-> 0,
   result |-> "none", stdout |-> FALSE, stderr |-> FALSE, abort |-> "none",
   abortTimeout |-> "none", ended |-> FALSE, errors |-> 0]

NoOneShot == [NewOneShot EXCEPT !.conn = "none", !.timeout = "none"]

\* The variables beside the session machinery, when they are not used.
SideInit ==
  /\ sanitizing = NoSanitizing
  /\ oneShot = NoOneShot
  /\ listing = NoListing
  /\ hostsFile = NoFile
  /\ hostCalls = [k \in CallSlots |-> NoCall]

NoLast ==
  [res |-> "none", calls |-> <<>>, settle |-> NoSettle, notify |-> <<0, 0>>, lost |-> FALSE]

Init ==
  /\ activeSessions = [id \in SessionIds |-> 0]
  /\ sessions = [o \in 1..MaxObj |-> FreeSession]
  /\ conns = [c \in 1..MaxConn |-> FreeConn]
  /\ last = NoLast
  /\ SideInit
  /\ wire = NoWire

\* The start-session handler as it would be without the has(id) test of
\* lines 250-252: getOrCreateSession, called with forceNew, disposes the
\* session registered under the id and registers a new one.
StartSession_noExistsCheck(id) ==
  LET old == activeSessions[id]
      S1 == IF old # 0 THEN Forget([dispose(State, old) EXCEPT !.reg[id] = 0]) ELSE State
  IN Commit(getOrCreateSession(S1, id, TRUE, "start", ""))

\* start-session handler, after getHostConfig has returned (lines 249-254).
StartSession(id) ==
  Commit(IF activeSessions[id] # 0
         THEN [State EXCEPT !.res = "exists"]
         ELSE getOrCreateSession(State, id, TRUE, "start", ""))

\* The exec handler as it would be if it obtained the session from
\* getOrCreateSession, as execSshCommand does.
Exec_getOrCreate(id, cmd) ==
  LET S1 == getOrCreateSession(State, id, FALSE, "legacy", cmd)
  IN Commit(IF S1.res = "ready" THEN execute(S1, S1.reg[id], cmd) ELSE S1)

\* exec handler (lines 265-271), up to the first suspension of execute, for
\* a command that sanitizeCommand accepts.
Exec(id, cmd) ==
  Commit(IF activeSessions[id] = 0
         THEN [State EXCEPT !.res = "notFound"]
         ELSE execute(State, activeSessions[id], cmd))

\* execSshCommand (lines 324-334), after getHostConfig has returned.
ExecSshCommand(id, cmd) ==
  LET S1 == getOrCreateSession(State, id, FALSE, "legacy", cmd)
  IN Commit(IF S1.res = "ready" THEN execute(S1, S1.reg[id], cmd) ELSE S1)

\* The close-session handler as it would be without the dispose of line 292.
CloseSession_noDispose(id) ==
  LET o == activeSessions[id]
  IN Commit(IF o = 0
            THEN [State EXCEPT !.res = "notFound"]
            ELSE [State EXCEPT !.reg[id] = 0, !.res = "ok"])

\* close-session handler (lines 287-295).
CloseSession(id) ==
  LET o == activeSessions[id]
  IN Commit(IF o = 0
            THEN [State EXCEPT !.res = "notFound"]
            ELSE [dispose(State, o) EXCEPT !.reg[id] = 0, !.res = "ok"])

\* The inactivity timeout callback (lines 494-496).
TimerFire(o) ==
  /\ sessions[o].inactivityTimer
  /\ Commit(dispose([State EXCEPT !.sess[o].inactivityTimer = FALSE], o))

\* conn 'ready' (line 407): conn.shell is called.
ConnReady(c) ==
  /\ conns[c].phase = "connecting"
  /\ conns[c].listeners
  /\ Commit([State EXCEPT !.conns[c].phase = "shellReq"])

\* The conn.shell callback with a stream (lines 414-431).  It is not a
\* listener of the connection: cleanup's removeAllListeners does not cancel
\* it, and after cleanup's conn.end() it still runs, with the stream if the
\* server's reply was already on its way, with an error otherwise.
ShellOpened(c) ==
  /\ conns[c].phase = "shellReq"
  /\ LET o == conns[c].owner
     IN Commit(resume([State EXCEPT !.sess[o].shell = c, !.conns[c].phase = "open",
                                    !.conns[c].streamListeners = TRUE], c))

\* The conn.shell callback with an error (lines 409-412).
ShellFailed(c, err) ==
  /\ conns[c].phase = "shellReq"
  /\ Commit(handleError([State EXCEPT !.conns[c].phase = "idle"], c, err))

\* conn 'error' (line 435).
ConnError(c, err) ==
  /\ conns[c].phase \notin {"free", "dead"}
  /\ conns[c].listeners
  /\ Commit(handleError([State EXCEPT !.conns[c].phase = "dead", !.conns[c].listeners = FALSE,
                                      !.conns[c].streamListeners = FALSE], c, err))

\* conn 'end' (line 436).
ConnEnd(c) ==
  /\ conns[c].phase \notin {"free", "dead"}
  /\ conns[c].listeners
  /\ Commit(cleanup([State EXCEPT !.conns[c].phase = "dead", !.conns[c].listeners = FALSE,
                                  !.conns[c].streamListeners = FALSE], conns[c].owner, NoErr))

\* stream 'close' (lines 420-422).
StreamClose(c) ==
  /\ conns[c].phase = "open"
  /\ conns[c].streamListeners
  /\ Commit(cleanup([State EXCEPT !.conns[c].phase = "idle", !.conns[c].streamListeners = FALSE],
                    conns[c].owner, NoErr))

\* The data listener as it would be if it kept the chunk in place of
\* appending it to the buffer.
onData_keepsChunkOnly(S, c, chunk) ==
  LET o == S.conns[c].owner
  IN processPending([S EXCEPT !.sess[o].buffer = chunk], o)

\* stream 'data' (lines 416-419, 423-426) with the chunk the shell sent.
onData(S, c, chunk) ==
  LET o == S.conns[c].owner
  IN processPending([S EXCEPT !.sess[o].buffer = @ \o chunk], o)

\* A character arrives that is not part of a marker line: Out when a command
\* is pending (what the command prints), Noise when none is (the login
\* banner, the prompt, the echo of the priming statements of lines 429-430).
StreamOutput(c) ==
  /\ conns[c].phase = "open"
  /\ conns[c].streamListeners
  /\ Len(sessions[conns[c].owner].buffer) < MaxBuf
  /\ Commit(onData(State, c, IF sessions[conns[c].owner].pendingCommand.set
                             THEN <<Out>> ELSE <<Noise>>))

\* The line printed by the printf statement of the command in the slot arrives.
StreamMarker(c, code) ==
  LET p == sessions[conns[c].owner].pendingCommand
  IN /\ conns[c].phase = "open"
     /\ conns[c].streamListeners
     /\ p.set
     /\ p.mstream = c
     /\ p.wstage \in {"marker", "done"}
     /\ Commit(onData(State, c, Marker \o <<code, NL>>))

\* The callback of a shell.write of the command in the slot (lines 467-477).
WriteCallback(o, err) ==
  LET p == sessions[o].pendingCommand
  IN /\ p.set
     /\ p.wstage \in {"cmd", "marker"}
     /\ Commit(IF err # NoErr
               THEN rejectPending([State EXCEPT !.sess[o].pendingCommand.wstage = "done"], o, err)
               ELSE IF p.wstage = "marker"
               THEN [State EXCEPT !.sess[o].pendingCommand.wstage = "done"]
               ELSE [State EXCEPT !.sess[o].pendingCommand.wstage = "marker",
                                  !.sess[o].pendingCommand.mstream = sessions[o].shell])

\* The callback of a shell.write of a command that has left the slot.
StaleWriteCallback(o, err) ==
  /\ sessions[o].staleWrites > 0
  /\ Commit(IF err # NoErr
            THEN rejectPending([State EXCEPT !.sess[o].staleWrites = @ - 1], o, err)
            ELSE [State EXCEPT !.sess[o].staleWrites = @ - 1])

Next ==
  \/ \E id \in SessionIds : StartSession(id)
  \/ \E id \in SessionIds, cmd \in Commands : Exec(id, cmd)
  \/ \E id \in SessionIds, cmd \in Commands : ExecSshCommand(id, cmd)
  \/ \E id \in SessionIds : CloseSession(id)
  \/ \E o \in DOMAIN sessions : TimerFire(o)
  \/ \E c \in DOMAIN conns : ConnReady(c)
  \/ \E c \in DOMAIN conns : ShellOpened(c)
  \/ \E c \in DOMAIN conns, err \in Errors : ShellFailed(c, err)
  \/ \E c \in DOMAIN conns, err \in Errors : ConnError(c, err)
  \/ \E c \in DOMAIN conns : ConnEnd(c)
  \/ \E c \in DOMAIN conns : StreamClose(c)
  \/ \E c \in DOMAIN conns : StreamOutput(c)
  \/ \E c \in DOMAIN conns, code \in ExitCodes : StreamMarker(c, code)
  \/ \E o \in DOMAIN sessions, err \in WriteErrors \cup {NoErr} : WriteCallback(o, err)
  \/ \E o \in DOMAIN sessions, err \in WriteErrors \cup {NoErr} : StaleWriteCallback(o, err)

Spec == Init /\ [][Next]_vars

TypeOK ==
  /\ \A id \in SessionIds : activeSessions[id] \in 0..MaxObj
  /\ \A o \in DOMAIN sessions : sessions[o].conn \in 0..MaxConn /\ sessions[o].shell \in 0..MaxConn

\* What the event loop and the ssh2 client have due does happen: an armed
\* inactivity timer fires, a write's callback is called, a connection attempt
\* becomes ready or fails, a shell request is answered.  Tool calls, and what
\* the peer does to an established connection, are the environment's and need
\* not occur.
FairSpec ==
  /\ Spec
  /\ \A o \in 1..MaxObj :
       /\ WF_vars(TimerFire(o))
       /\ WF_vars(\E err \in WriteErrors \cup {NoErr} : WriteCallback(o, err))
       /\ WF_vars(\E err \in WriteErrors \cup {NoErr} : StaleWriteCallback(o, err))
  /\ \A c \in 1..MaxConn :
       /\ WF_vars(/\ conns[c].phase = "connecting"
                  /\ ConnReady(c) \/ \E err \in Errors : ConnError(c, err))
       /\ WF_vars(ShellOpened(c) \/ \E err \in Errors : ShellFailed(c, err))

\* --------------------------------------------------- the stream, chunk by chunk
\* What the data listener and processPending (lines 416-419, 499-529) make of
\* one command's answer, for every text of the answer and every way the
\* stream cuts it into chunks.  A text is the command's output, the marker,
\* the text printf put for $?, the newline, and what the shell sent after it.

\* What a command prints: ordinary characters, blanks, line ends, carriage
\* returns, and the marker's fixed prefix (never the whole marker).
OutTokens == {Out, " ", NL, CR, Prefix}

RECURSIVE SeqsUpTo(_, _)
SeqsUpTo(T, n) ==
  IF n = 0 THEN {<<>>}
  ELSE LET shorter == SeqsUpTo(T, n - 1)
       IN shorter \cup {Append(q, t) : q \in {r \in shorter : Len(r) = n - 1}, t \in T}

Outputs == {q \in SeqsUpTo(OutTokens, MaxOut) : IndexOfSeq(q, Marker) = 0}

\* The texts between the marker and the newline: decimal numbers, bare or
\* padded, the empty text, and texts that are no number.
ExitCodeTexts ==
  {<<"0">>, <<"7">>, <<"1", "2">>, <<"-", "1">>, <<"7", CR>>, <<" ", "3">>,
   <<>>, <<" ">>, <<"x">>, <<"-">>}

Leftovers == {<<>>, <<Out>>}

WireText(w) == w.out \o Marker \o w.code \o <<NL>> \o w.tail

\* A session in the Executing state: connected, the command and the printf
\* statement written and their callbacks called, nothing received yet.
Executing(id, cmd) ==
  [NewSession(id) EXCEPT !.conn = 1, !.shell = 1, !.inactivityTimer = TRUE, !.lastCommand = cmd,
                         !.unsettled = 1,
                         !.pendingCommand = [NewPending EXCEPT !.wstage = "done", !.mstream = 1]]

OpenShell(o) ==
  [NewConn(o, "none", "") EXCEPT !.phase = "open", !.streamListeners = TRUE, !.waiting = FALSE]

FeedInit ==
  /\ \E id \in SessionIds, cmd \in Commands :
       /\ activeSessions = [i \in SessionIds |-> IF i = id THEN 1 ELSE 0]
       /\ sessions = [o \in 1..MaxObj |-> IF o = 1 THEN Executing(id, cmd) ELSE FreeSession]
  /\ conns = [c \in 1..MaxConn |-> IF c = 1 THEN OpenShell(1) ELSE FreeConn]
  /\ last = NoLast
  /\ SideInit
  /\ \E out \in Outputs, code \in ExitCodeTexts, tail \in Leftovers :
       wire = [out |-> out, code |-> code, tail |-> tail, pos |-> 0, cut |-> 0]

\* The next n tokens of the text arrive as one chunk.
Feed(c, n) ==
  /\ conns[c].phase = "open"
  /\ conns[c].streamListeners
  /\ wire.pos + n <= Len(WireText(wire))
  /\ Commit(onData([State EXCEPT !.wire.pos = @ + n, !.wire.cut = wire.pos], c,
                   SubSeq(WireText(wire), wire.pos + 1, wire.pos + n)))

FeedNext == \E c \in DOMAIN conns, n \in 1..Len(WireText(wire)) : Feed(c, n)

FeedSpec == FeedInit /\ [][FeedNext]_vars

\* ------------------------------------------------------- two sessions at once
\* Two sessions that start-session has registered and connected, and the
\* tool calls and events that can follow on either of them: exec and
\* close-session, data and marker lines, write callbacks, the timer, and the
\* transport's error, end and close.  A connect that exec starts after the
\* transport has gone is left in progress.

PairIds == <<"s1", "s2">>

\* A session in the Ready state: connection c open with its shell, no command
\* pending, the inactivity timer armed (lines 407-440).
ReadySession(id, c) ==
  [NewSession(id) EXCEPT !.conn = c, !.shell = c, !.inactivityTimer = TRUE]

PairInit ==
  /\ activeSessions = [id \in {PairIds[i] : i \in DOMAIN PairIds} |->
                         CHOOSE i \in DOMAIN PairIds : PairIds[i] = id]
  /\ sessions = [o \in DOMAIN PairIds |-> ReadySession(PairIds[o], o)]
  /\ conns = [c \in DOMAIN PairIds |-> OpenShell(c)]
  /\ last = NoLast
  /\ SideInit
  /\ wire = NoWire

PairNext ==
  \/ \E id \in DOMAIN activeSessions, cmd \in Commands : Exec(id, cmd)
  \/ \E id \in DOMAIN activeSessions : CloseSession(id)
  \/ \E o \in DOMAIN sessions : TimerFire(o)
  \/ \E c \in DOMAIN conns, err \in Errors : ConnError(c, err)
  \/ \E c \in DOMAIN conns : ConnEnd(c)
  \/ \E c \in DOMAIN conns : StreamClose(c)
  \/ \E c \in DOMAIN conns : StreamOutput(c)
  \/ \E c \in DOMAIN conns, code \in ExitCodes : StreamMarker(c, code)
  \/ \E o \in DOMAIN sessions, err \in WriteErrors \cup {NoErr} : WriteCallback(o, err)
  \/ \E o \in DOMAIN sessions, err \in WriteErrors \cup {NoErr} : StaleWriteCallback(o, err)

PairSpec == PairInit /\ [][PairNext]_vars

\* ------------------------------------------- session objects of one id in turn
\* The registry and the life of the session objects, with room for a session
\* object that is disposed but still has callbacks due beside the one
\* registered after it: start-session and close-session, the timer, and the
\* events of connecting and of the transport.  No command is executed.

RegistryInit ==
  /\ activeSessions = [id \in SessionIds |-> 0]
  /\ sessions = [o \in 1..(MaxObj + 1) |-> FreeSession]
  /\ conns = [c \in 1..(MaxConn + 1) |-> FreeConn]
  /\ last = NoLast
  /\ SideInit
  /\ wire = NoWire

RegistryNext ==
  \/ \E id \in SessionIds : StartSession(id)
  \/ \E id \in SessionIds : CloseSession(id)
  \/ \E o \in DOMAIN sessions : TimerFire(o)
  \/ \E c \in DOMAIN conns : ConnReady(c)
  \/ \E c \in DOMAIN conns : ShellOpened(c)
  \/ \E c \in DOMAIN conns, err \in Errors : ShellFailed(c, err)
  \/ \E c \in DOMAIN conns, err \in Errors : ConnError(c, err)
  \/ \E c \in DOMAIN conns : ConnEnd(c)
  \/ \E c \in DOMAIN conns : StreamClose(c)

RegistrySpec == RegistryInit /\ [][RegistryNext]_vars

\* ------------------------------------------------------------- list-sessions
\* list-sessions (lines 302-321) applied to two registries that hold the same
\* sessions but for the password and the private key of their configurations.

Undefined == "undefined"

ListIds == {"s1", "s2"}

\* The ConnectConfig that getHostConfig builds (lines 88-111); port 0 is
\* for a port that is undefined.
Configs ==
  [host : {"h1"}, port : {2222, 0}, username : {"u1", Undefined},
   password : {"p1", Undefined}, privateKey : {"k1", Undefined}]

\* What getInfo reads of a PersistentSession (lines 368-373); lastCommand is
\* "" for null.
ListedSessions ==
  [id : ListIds, config : Configs, createdAt : {0}, lastCommand : {""} \cup Commands,
   disposed : {FALSE}]

\* The registries list-sessions may find, in the order of the Map: each id
\* at most once, each session under its own id.
Registries ==
  {r \in SeqsUpTo(ListedSessions, MaxListed) :
     \A i, j \in DOMAIN r : r[i].id = r[j].id => i = j}

SameButSecrets(a, b) ==
  /\ Len(a) = Len(b)
  /\ \A i \in DOMAIN a :
       a[i] = [b[i] EXCEPT !.config.password = a[i].config.password,
                           !.config.privateKey = a[i].config.privateKey]

\* getInfo as it would be if it gave the password, when there is one, for
\* the user name.
getInfo_passwordAsUser(s) ==
  [id |-> s.id,
   host |-> IF s.config.host = Undefined THEN "unknown" ELSE s.config.host,
   port |-> IF s.config.port = 0 THEN 22 ELSE s.config.port,
   username |-> IF s.config.password # Undefined THEN s.config.password
                ELSE IF s.config.username = Undefined THEN "unknown" ELSE s.config.username,
   createdAt |-> s.createdAt,
   lastCommand |-> s.lastCommand,
   disposed |-> s.disposed]

\* PersistentSession.getInfo (lines 378-388).
getInfo(s) ==
  [id |-> s.id,
   host |-> IF s.config.host = Undefined THEN "unknown" ELSE s.config.host,
   port |-> IF s.config.port = 0 THEN 22 ELSE s.config.port,
   username |-> IF s.config.username = Undefined THEN "unknown" ELSE s.config.username,
   createdAt |-> s.createdAt,
   lastCommand |-> s.lastCommand,
   disposed |-> s.disposed]

\* One line of the listing (lines 310-317), as the parts of its template.
SessionLine(id, info, now) ==
  LET uptimeMs == now - info.createdAt
      minutes == uptimeMs \div 60000
      seconds == (uptimeMs % 60000) \div 1000
  IN <<"session=", id, " host=", info.host, ":", info.port, " user=", info.username,
       " uptime=", minutes, "m", seconds, "s lastCommand=",
       IF info.lastCommand = "" THEN "n/a" ELSE info.lastCommand>>

\* The text list-sessions returns, as its lines.
ListSessionsText(reg, now) ==
  IF Len(reg) = 0 THEN <<"No active sessions">>
  ELSE [i \in DOMAIN reg |-> SessionLine(reg[i].id, getInfo(reg[i]), now)]

ListInit ==
  /\ activeSessions = [id \in SessionIds |-> 0]
  /\ sessions = [o \in 1..MaxObj |-> FreeSession]
  /\ conns = [c \in 1..MaxConn |-> FreeConn]
  /\ last = NoLast
  /\ wire = NoWire
  /\ sanitizing = NoSanitizing
  /\ oneShot = NoOneShot
  /\ hostsFile = NoFile
  /\ hostCalls = [k \in CallSlots |-> NoCall]
  /\ \E a \in Registries, b \in Registries :
       /\ SameButSecrets(a, b)
       /\ listing = [NoListing EXCEPT !.a = a, !.b = b]

\* list-sessions is called on either registry at the same time now.
ListSessions(now) ==
  /\ listing' = [listing EXCEPT !.textA = ListSessionsText(listing.a, now),
                                !.textB = ListSessionsText(listing.b, now),
                                !.listed = TRUE]
  /\ UNCHANGED <<sessionVars, oneShot, sanitizing, hostsFile, hostCalls>>

ListNext == \E now \in {1000, 125000} : ListSessions(now)

ListSpec == ListInit /\ [][ListNext]_vars

\* ------------------------------------------------------------ the host store
\* add-host, edit-host and remove-host (lines 162-237) on hosts.json, each
\* call advancing from one await to the next, so that calls overlap.

HostIds == {"a", "b"}

\* The index of the first host of the list with the id, 0 if there is none
\* (Array.prototype.find and some).
HostIndex(hosts, id) ==
  IF \E i \in DOMAIN hosts : hosts[i].id = id
  THEN CHOOSE i \in DOMAIN hosts : hosts[i].id = id /\ \A j \in 1..(i - 1) : hosts[j].id # id
  ELSE 0

UniqueIds(hosts) == \A i, j \in DOMAIN hosts : hosts[i].id = hosts[j].id => i = j

\* HostsSchema (lines 37-46) applied to the stored list: a host stored
\* without a port (port 0) gets port 22.
parseHosts(stored) ==
  [i \in DOMAIN stored |-> [stored[i] EXCEPT !.port = IF @ = 0 THEN 22 ELSE @]]

\* Lines 230-234 as they would be if a field the call omits were cleared.
editTarget_clearsOmitted(target, arg) ==
  [target EXCEPT !.host = IF arg.host \notin {Undefined, ""} THEN arg.host ELSE @,
                 !.port = IF arg.port # 0 THEN arg.port ELSE @,
                 !.username = IF arg.username \notin {Undefined, ""} THEN arg.username ELSE @,
                 !.password = arg.password,
                 !.keyPath = arg.keyPath]

\* Lines 230-234: the fields of the target that the call replaces.
editTarget(target, arg) ==
  [target EXCEPT !.host = IF arg.host \notin {Undefined, ""} THEN arg.host ELSE @,
                 !.port = IF arg.port # 0 THEN arg.port ELSE @,
                 !.username = IF arg.username \notin {Undefined, ""} THEN arg.username ELSE @,
                 !.password = IF arg.password # Undefined THEN arg.password ELSE @,
                 !.keyPath = IF arg.keyPath # Undefined THEN arg.keyPath ELSE @]

\* add-host as it would be without the test of lines 164-166.
hostHandler_addNoCheck(op, arg, hosts) ==
  LET at == HostIndex(hosts, arg.id)
      IdIsNot(h) == h.id # arg.id
  IN CASE op = "add" -> [result |-> "ok", hosts |-> Append(hosts, arg)]
       [] op = "remove" ->
            IF at = 0 THEN [result |-> "notFound", hosts |-> hosts]
            ELSE [result |-> "ok", hosts |-> SelectSeq(hosts, IdIsNot)]
       [] op = "edit" ->
            IF at = 0 THEN [result |-> "notFound", hosts |-> hosts]
            ELSE [result |-> "ok", hosts |-> [hosts EXCEPT ![at] = editTarget(@, arg)]]

\* What a handler does with the list readHosts returned, up to its call of
\* writeHosts: add-host (lines 164-174), remove-host (204-207), edit-host
\* (226-234).
hostHandler(op, arg, hosts) ==
  LET at == HostIndex(hosts, arg.id)
      IdIsNot(h) == h.id # arg.id
  IN CASE op = "add" ->
            IF at # 0 THEN [result |-> "exists", hosts |-> hosts]
            ELSE [result |-> "ok", hosts |-> Append(hosts, arg)]
       [] op = "remove" ->
            IF at = 0 THEN [result |-> "notFound", hosts |-> hosts]
            ELSE [result |-> "ok", hosts |-> SelectSeq(hosts, IdIsNot)]
       [] op = "edit" ->
            IF at = 0 THEN [result |-> "notFound", hosts |-> hosts]
            ELSE [result |-> "ok", hosts |-> [hosts EXCEPT ![at] = editTarget(@, arg)]]

\* The arguments of the calls: a host to add, a host name to set, an id to
\* remove.
HostToAdd(id) ==
  [id |-> id, host |-> "h1", port |-> 22, username |-> "u1", password |-> Undefined,
   keyPath |-> Undefined]

HostEdit(id) ==
  [id |-> id, host |-> "h2", port |-> 0, username |-> Undefined, password |-> Undefined,
   keyPath |-> Undefined]

HostCallArgs(op) ==
  IF op = "add" THEN {HostToAdd(id) : id \in HostIds}
  ELSE IF op = "edit" THEN {HostEdit(id) : id \in HostIds}
  ELSE {[NoHost EXCEPT !.id = id] : id \in HostIds}

\* The lists hosts.json may hold at the start: hosts that add-host stored,
\* each id at most once.
StoredLists ==
  {l \in SeqsUpTo({HostToAdd(id) : id \in HostIds}, Cardinality(HostIds)) : UniqueIds(l)}

HostInit ==
  /\ activeSessions = [id \in SessionIds |-> 0]
  /\ sessions = [o \in 1..MaxObj |-> FreeSession]
  /\ conns = [c \in 1..MaxConn |-> FreeConn]
  /\ last = NoLast
  /\ wire = NoWire
  /\ sanitizing = NoSanitizing
  /\ oneShot = NoOneShot
  /\ listing = NoListing
  /\ hostsFile \in {NoFile} \cup {[state |-> "ok", hosts |-> l] : l \in StoredLists}
  /\ hostCalls = [k \in CallSlots |-> NoCall]

\* A tool is called (lines 162, 202, 224): readHosts, ensureHostsFile.
HostCall(k, op, arg) ==
  /\ hostCalls[k].pc = "idle"
  /\ hostCalls' = [hostCalls EXCEPT ![k] = [NoCall EXCEPT !.op = op, !.arg = arg, !.pc = "stat"]]
  /\ UNCHANGED <<sessionVars, oneShot, sanitizing, listing, hostsFile>>

\* ensureHostsFile has the result of stat (lines 50-63).
HostStat(k) ==
  /\ hostCalls[k].pc = "stat"
  /\ hostCalls' = [hostCalls EXCEPT ![k].pc =
                      IF hostsFile.state = "missing" THEN "create" ELSE "read"]
  /\ UNCHANGED <<sessionVars, oneShot, sanitizing, listing, hostsFile>>

\* ensureHostsFile writes the empty list (line 57), whatever the file holds
\* by now.
HostCreate(k) ==
  /\ hostCalls[k].pc = "create"
  /\ hostsFile' = [state |-> "ok", hosts |-> <<>>]
  /\ hostCalls' = [hostCalls EXCEPT ![k].pc = "read"]
  /\ UNCHANGED <<sessionVars, oneShot, sanitizing, listing>>

\* readFile returns (lines 68-73) and the handler runs up to writeHosts.  Of
\* a file that a writeFile has truncated, readFile returns the empty text,
\* read as the empty list (line 69), or a part of the text, which JSON.parse
\* refuses.
HostRead(k, torn) ==
  LET call == hostCalls[k]
      hosts == IF hostsFile.state = "truncated" THEN <<>> ELSE parseHosts(hostsFile.hosts)
      h == hostHandler(call.op, call.arg, hosts)
  IN /\ call.pc = "read"
     /\ torn => hostsFile.state = "truncated"
     /\ hostCalls' = [hostCalls EXCEPT ![k] =
                        IF torn THEN [call EXCEPT !.pc = "done", !.result = "parseError"]
                        ELSE IF h.result # "ok" THEN [call EXCEPT !.pc = "done", !.result = h.result]
                        ELSE [call EXCEPT !.pc = "open", !.hosts = h.hosts]]
     /\ UNCHANGED <<sessionVars, oneShot, sanitizing, listing, hostsFile>>

\* writeFile of writeHosts opens the file, truncating it (line 78).
HostOpen(k) ==
  /\ hostCalls[k].pc = "open"
  /\ hostsFile' = [state |-> "truncated", hosts |-> <<>>]
  /\ hostCalls' = [hostCalls EXCEPT ![k].pc = "write"]
  /\ UNCHANGED <<sessionVars, oneShot, sanitizing, listing>>

\* writeFile has written the list, and the handler returns.
HostWrite(k) ==
  /\ hostCalls[k].pc = "write"
  /\ hostsFile' = [state |-> "ok", hosts |-> hostCalls[k].hosts]
  /\ hostCalls' = [hostCalls EXCEPT ![k].pc = "done", ![k].result = "ok"]
  /\ UNCHANGED <<sessionVars, oneShot, sanitizing, listing>>

\* The caller has the result.
HostReturn(k) ==
  /\ hostCalls[k].pc = "done"
  /\ hostCalls' = [hostCalls EXCEPT ![k] = NoCall]
  /\ UNCHANGED <<sessionVars, oneShot, sanitizing, listing, hostsFile>>

HostNext ==
  \/ \E k \in CallSlots, op \in {"add", "edit", "remove"} :
       \E arg \in HostCallArgs(op) : HostCall(k, op, arg)
  \/ \E k \in CallSlots : HostStat(k)
  \/ \E k \in CallSlots : HostCreate(k)
  \/ \E k \in CallSlots, torn \in BOOLEAN : HostRead(k, torn)
  \/ \E k \in CallSlots : HostOpen(k)
  \/ \E k \in CallSlots : HostWrite(k)
  \/ \E k \in CallSlots : HostReturn(k)

HostSpec == HostInit /\ [][HostNext]_vars

\* ------------------------------------------------------- edit-host, one call
\* One edit-host call, from its call to its result, on every stored list and
\* with every choice of fields supplied and omitted.

\* The hosts hosts.json may hold: with or without a port, a password, a key
\* path.
StoredHosts ==
  [id : HostIds, host : {"h1"}, port : {0, 2222}, username : {"u1"},
   password : {Undefined, "p1"}, keyPath : {Undefined, "k1"}]

\* The arguments of edit-host: each field omitted (Undefined, port 0), or
\* supplied, the empty string included.
EditArgs ==
  [id : HostIds, host : {Undefined, "", "h2"}, port : {0, 2200}, username : {Undefined, "u2"},
   password : {Undefined, "", "p2"}, keyPath : {Undefined, "k2"}]

EditInit ==
  /\ activeSessions = [id \in SessionIds |-> 0]
  /\ sessions = [o \in 1..MaxObj |-> FreeSession]
  /\ conns = [c \in 1..MaxConn |-> FreeConn]
  /\ last = NoLast
  /\ wire = NoWire
  /\ sanitizing = NoSanitizing
  /\ oneShot = NoOneShot
  /\ listing = NoListing
  /\ hostsFile \in {NoFile} \cup
       {[state |-> "ok", hosts |-> l] :
          l \in {q \in SeqsUpTo(StoredHosts, Cardinality(HostIds)) : UniqueIds(q)}}
  /\ hostCalls = [k \in CallSlots |-> NoCall]

EditNext ==
  \E k \in CallSlots :
    /\ \A j \in CallSlots \ {k} : hostCalls[j].pc = "idle"
    /\ \/ \E arg \in EditArgs : HostCall(k, "edit", arg)
       \/ HostStat(k)
       \/ HostCreate(k)
       \/ HostRead(k, FALSE)
       \/ HostOpen(k)
       \/ HostWrite(k)

EditSpec == EditInit /\ [][EditNext]_vars

\* ------------------------------------------------- two host calls, one each
\* Two host tool calls, each made once, that run one after the other or
\* overlap in every way the awaits of readHosts and writeHosts allow.

OverlapNext ==
  \/ \E k \in CallSlots, op \in {"add", "edit", "remove"} :
       \E arg \in HostCallArgs(op) : HostCall(k, op, arg)
  \/ \E k \in CallSlots : HostStat(k)
  \/ \E k \in CallSlots : HostCreate(k)
  \/ \E k \in CallSlots, torn \in BOOLEAN : HostRead(k, torn)
  \/ \E k \in CallSlots : HostOpen(k)
  \/ \E k \in CallSlots : HostWrite(k)

OverlapSpec == HostInit /\ [][OverlapNext]_vars

\* ------------------------------------------------- the one-shot execSshCommand
\* The callbacks of execSshCommand in unnamed/part_000 (lines 197-275), the
\* earlier variant that opens a connection for each command and gives the
\* command a timeout.  conn.exec is taken to return normally.

\* resolve or reject is called; the promise keeps what it was first settled
\* with.
settleOneShot(s, how) ==
  [s EXCEPT !.settled = IF @ < 2 THEN @ + 1 ELSE 2,
            !.result = IF s.settled = 0 THEN how ELSE @]

\* clearTimeout(timeoutId)
clearOneShotTimeout(s) ==
  [s EXCEPT !.timeout = IF @ = "armed" THEN "cleared" ELSE @]

\* The timeout callback (lines 204-226).
onTimeout(s) ==
  IF s.isResolved THEN s
  ELSE settleOneShot([s EXCEPT !.isResolved = TRUE, !.abortTimeout = "armed",
                               !.abort = "requested"], "timedOut")

\* The callback of conn.exec(command) (lines 229-264).
onExec(s, err) ==
  IF err
  THEN LET s1 == IF s.isResolved THEN s
                 ELSE settleOneShot(clearOneShotTimeout([s EXCEPT !.isResolved = TRUE]),
                                    "execError")
       IN [s1 EXCEPT !.ended = TRUE, !.conn = "idle"]
  ELSE [s EXCEPT !.conn = "stream"]

\* The stream's 'close' listener (lines 241-257).
onStreamClose(s) ==
  IF s.isResolved THEN s
  ELSE settleOneShot(clearOneShotTimeout([s EXCEPT !.isResolved = TRUE, !.ended = TRUE]),
                     IF s.stderr THEN "stderrError" ELSE "content")

\* The connection's 'error' listener as it would be without the test of
\* line 267.
onConnError_unguarded(s) ==
  settleOneShot(clearOneShotTimeout([s EXCEPT !.isResolved = TRUE]), "connError")

\* The connection's 'error' listener (lines 266-272).
onConnError(s) ==
  IF s.isResolved THEN s
  ELSE settleOneShot(clearOneShotTimeout([s EXCEPT !.isResolved = TRUE]), "connError")

\* The 'error' events one connection is given at most.
MaxErrors == 2

OneShotInit ==
  /\ activeSessions = [id \in SessionIds |-> 0]
  /\ sessions = [o \in 1..MaxObj |-> FreeSession]
  /\ conns = [c \in 1..MaxConn |-> FreeConn]
  /\ last = NoLast
  /\ wire = NoWire
  /\ sanitizing = NoSanitizing
  /\ listing = NoListing
  /\ hostsFile = NoFile
  /\ hostCalls = [k \in CallSlots |-> NoCall]
  /\ oneShot = NewOneShot

OneShotStep(s) ==
  /\ oneShot' = s
  /\ UNCHANGED <<sessionVars, sanitizing, listing, hostsFile, hostCalls>>

\* The timeout expires.
OneShotTimeout ==
  /\ oneShot.timeout = "armed"
  /\ OneShotStep(onTimeout([oneShot EXCEPT !.timeout = "fired"]))

\* conn 'ready' (line 228): conn.exec(command) is called.
OneShotReady ==
  /\ oneShot.conn = "connecting"
  /\ OneShotStep([oneShot EXCEPT !.conn = "execReq"])

\* The callback of conn.exec(command), with an error or with the stream.
OneShotExec(err) ==
  /\ oneShot.conn = "execReq"
  /\ OneShotStep(onExec(oneShot, err))

\* The stream's 'data' listeners (lines 258-263).
OneShotData(isStderr) ==
  /\ oneShot.conn = "stream"
  /\ OneShotStep(IF isStderr THEN [oneShot EXCEPT !.stderr = TRUE]
                             ELSE [oneShot EXCEPT !.stdout = TRUE])

\* The stream's 'close'.
OneShotStreamClose ==
  /\ oneShot.conn = "stream"
  /\ OneShotStep(onStreamClose([oneShot EXCEPT !.conn = "idle"]))

\* conn 'error'.
OneShotConnError ==
  /\ oneShot.errors < MaxErrors
  /\ OneShotStep(onConnError([oneShot EXCEPT !.errors = @ + 1]))

\* The callback of the pkill command (lines 213-223), with its stream or
\* without.
OneShotAbortExec(hasStream) ==
  /\ oneShot.abort = "requested"
  /\ OneShotStep(IF hasStream THEN [oneShot EXCEPT !.abort = "stream"]
                             ELSE [oneShot EXCEPT !.abort = "done", !.ended = TRUE,
                                                  !.abortTimeout =
                                                     IF @ = "armed" THEN "cleared" ELSE @])

\* The 'close' of the pkill command's stream (lines 215-218).
OneShotAbortClose ==
  /\ oneShot.abort = "stream"
  /\ OneShotStep([oneShot EXCEPT !.abort = "done", !.ended = TRUE,
                                 !.abortTimeout = IF @ = "armed" THEN "cleared" ELSE @])

\* The timer of the pkill command expires (lines 208-211).
OneShotAbortTimeout ==
  /\ oneShot.abortTimeout = "armed"
  /\ OneShotStep([oneShot EXCEPT !.abortTimeout = "fired", !.ended = TRUE])

OneShotNext ==
  \/ OneShotTimeout
  \/ OneShotReady
  \/ \E err \in BOOLEAN : OneShotExec(err)
  \/ \E isStderr \in BOOLEAN : OneShotData(isStderr)
  \/ OneShotStreamClose
  \/ OneShotConnError
  \/ \E hasStream \in BOOLEAN : OneShotAbortExec(hasStream)
  \/ OneShotAbortClose
  \/ OneShotAbortTimeout

OneShotSpec == OneShotInit /\ [][OneShotNext]_vars

\* ----------------------------------------------------------- sanitizeCommand
\* sanitizeCommand (lines 115-131) applied to commands of every length about
\* its limits, with and without whitespace around them.

\* The limit tested at line 126.
MaxCommandLength == 15000

\* The limit named in the message of line 127.
StatedMaxLength == 1000

CommandLengths ==
  (0..2) \cup ((StatedMaxLength - 2)..(StatedMaxLength + 2))
         \cup ((MaxCommandLength - 2)..(MaxCommandLength + 2))

CommandInputs == [lead : 0..2, length : CommandLengths, trail : 0..1]

\* String.prototype.trim.  A command of no characters between its
\* whitespace is all whitespace.
TrimCommand(c) == [c EXCEPT !.lead = 0, !.trail = 0]

\* sanitizeCommand for a string argument (lines 120-130).
sanitizeCommand(c) ==
  LET trimmedCommand == TrimCommand(c)
  IN IF trimmedCommand.length = 0 THEN [result |-> "empty", value |-> NoCommand]
     ELSE IF trimmedCommand.length > MaxCommandLength
     THEN [result |-> "tooLong", value |-> NoCommand]
     ELSE [result |-> "ok", value |-> trimmedCommand]

SanitizeInit ==
  /\ activeSessions = [id \in SessionIds |-> 0]
  /\ sessions = [o \in 1..MaxObj |-> FreeSession]
  /\ conns = [c \in 1..MaxConn |-> FreeConn]
  /\ last = NoLast
  /\ wire = NoWire
  /\ listing = NoListing
  /\ hostsFile = NoFile
  /\ hostCalls = [k \in CallSlots |-> NoCall]
  /\ oneShot = NoOneShot
  /\ \E c \in CommandInputs : sanitizing = [NoSanitizing EXCEPT !.command = c]

Sanitize ==
  /\ sanitizing.result = "none"
  /\ sanitizing' = [sanitizing EXCEPT !.result = sanitizeCommand(sanitizing.command).result,
                                      !.value = sanitizeCommand(sanitizing.command).value]
  /\ UNCHANGED <<sessionVars, oneShot, listing, hostsFile, hostCalls>>

SanitizeNext == Sanitize

SanitizeSpec == SanitizeInit /\ [][SanitizeNext]_vars

\* ------------------------------------------------- one command after another
\* A connected session on which commands are run one after another, each
\* answered in one chunk that can bring more than the answer: the output, the
\* marker line, and what the shell sent after it.  Single characters arrive
\* between the chunks.

\* What the shell sends after a marker line.
Remainders == {<<>>, <<Noise>>, <<" ">>, <<CR, NL>>, <<Noise, " ">>}

LeftoverInit ==
  /\ \E id \in SessionIds :
       /\ activeSessions = [i \in SessionIds |-> IF i = id THEN 1 ELSE 0]
       /\ sessions = [o \in 1..MaxObj |-> IF o = 1 THEN ReadySession(id, 1) ELSE FreeSession]
  /\ conns = [c \in 1..MaxConn |-> IF c = 1 THEN OpenShell(1) ELSE FreeConn]
  /\ last = NoLast
  /\ SideInit
  /\ wire = NoWire

\* What a command prints: nothing, a word, a blank, a word after a carriage
\* return, a line.
Printed == {<<>>, <<Out>>, <<" ">>, <<CR, Out>>, <<Out, NL>>}

\* The answer of the command in the slot arrives as one chunk.
Answer(c, out, code, tail) ==
  LET p == sessions[conns[c].owner].pendingCommand
  IN /\ conns[c].phase = "open"
     /\ conns[c].streamListeners
     /\ p.set
     /\ p.mstream = c
     /\ p.wstage \in {"marker", "done"}
     /\ Commit(onData(State, c, out \o Marker \o <<code, NL>> \o tail))

LeftoverNext ==
  \/ \E id \in SessionIds, cmd \in Commands : Exec(id, cmd)
  \/ \E o \in DOMAIN sessions : WriteCallback(o, NoErr)
  \/ \E c \in DOMAIN conns : StreamOutput(c)
  \/ \E c \in DOMAIN conns, out \in Printed, code \in ExitCodes, tail \in Remainders :
       Answer(c, out, code, tail)

LeftoverSpec == LeftoverInit /\ [][LeftoverNext]_vars

\* ------------------------------------------------------- a connect in progress
\* One session whose first connect is in progress, for each of the callers
\* that can wait on it (start-session, exec on a session that has lost its
\* transport, execSshCommand), and everything that can happen to it from
\* there short of a further tool call that opens a session or submits a
\* command: close-session, the timer, the connection's and the stream's
\* events, the write callbacks.  What the event loop and the ssh2 client have
\* due does happen, as in FairSpec.

ConnectInit ==
  /\ \E id \in SessionIds, kind \in {"start", "exec", "legacy"}, cmd \in Commands :
       /\ activeSessions = [i \in SessionIds |-> IF i = id THEN 1 ELSE 0]
       /\ sessions = [o \in 1..MaxObj |->
                        IF o = 1 THEN [NewSession(id) EXCEPT !.conn = 1] ELSE FreeSession]
       /\ conns = [c \in 1..MaxConn |->
                     IF c = 1 THEN NewConn(1, kind, IF kind = "start" THEN "" ELSE cmd)
                     ELSE FreeConn]
  /\ last = NoLast
  /\ SideInit
  /\ wire = NoWire

ConnectNext ==
  \/ \E id \in SessionIds : CloseSession(id)
  \/ \E o \in DOMAIN sessions : TimerFire(o)
  \/ \E c \in DOMAIN conns : ConnReady(c)
  \/ \E c \in DOMAIN conns : ShellOpened(c)
  \/ \E c \in DOMAIN conns, err \in Errors : ShellFailed(c, err)
  \/ \E c \in DOMAIN conns, err \in Errors : ConnError(c, err)
  \/ \E c \in DOMAIN conns : ConnEnd(c)
  \/ \E c \in DOMAIN conns : StreamClose(c)
  \/ \E c \in DOMAIN conns : StreamOutput(c)
  \/ \E c \in DOMAIN conns, code \in ExitCodes : StreamMarker(c, code)
  \/ \E o \in DOMAIN sessions, err \in WriteErrors \cup {NoErr} : WriteCallback(o, err)
  \/ \E o \in DOMAIN sessions, err \in WriteErrors \cup {NoErr} : StaleWriteCallback(o, err)

ConnectSpec ==
  /\ ConnectInit
  /\ [][ConnectNext]_vars
  /\ \A o \in 1..MaxObj :
       /\ WF_vars(TimerFire(o))
       /\ WF_vars(\E err \in WriteErrors \cup {NoErr} : WriteCallback(o, err))
       /\ WF_vars(\E err \in WriteErrors \cup {NoErr} : StaleWriteCallback(o, err))
  /\ \A c \in 1..MaxConn :
       /\ WF_vars(/\ conns[c].phase = "connecting"
                  /\ ConnReady(c) \/ \E err \in Errors : ConnError(c, err))
       /\ WF_vars(ShellOpened(c) \/ \E err \in Errors : ShellFailed(c, err))

\* ------------------------------------------------------------------ claims
Connected(s) == s.conn # 0 /\ s.shell # 0

\* The connections of session o whose connect is still under way.
Attempts(o) ==
  {c \in DOMAIN conns : conns[c].owner = o /\ conns[c].listeners
                        /\ conns[c].phase \in {"connecting", "shellReq"}}

\* Session o is disposed after the step (its slot is freed once nothing of a
\* disposed session is left).
DisposedNext(o) == sessions'[o].disposed \/ ~sessions'[o].used

\* C1: in every reachable state a session has at most one accepted and
\* unsettled execute promise, and it is the one in the pendingCommand slot.
C1_AtMostOneInFlight ==
  \A o \in DOMAIN sessions :
    /\ sessions[o].unsettled <= 1
    /\ sessions[o].unsettled = 1 <=> sessions[o].pendingCommand.set

\* C1 witness: an execute was refused as busy while a command is in flight.
C1_Witness ==
  /\ last.res = "busy"
  /\ \E o \in DOMAIN sessions : sessions[o].pendingCommand.set /\ sessions[o].unsettled = 1

\* C2: an execute called on a session whose slot holds a pending command
\* fails with the busy error and changes nothing of the session, its
\* connections or the registry.
C2_BusyUndisturbed ==
  [][\A id \in SessionIds, cmd \in Commands :
       ( /\ Exec(id, cmd) \/ ExecSshCommand(id, cmd)
         /\ activeSessions[id] # 0
         /\ sessions[activeSessions[id]].pendingCommand.set )
       => ( /\ last'.res = "busy"
            /\ sessions' = sessions
            /\ conns' = conns
            /\ activeSessions' = activeSessions )]_vars

\* C3: every execute or ensureConnected invoked on a session that is already
\* disposed throws the disposed error, makes no SSHClient and writes nothing.
C3_DisposedRefuses ==
  \A i \in 1..Len(last.calls) :
    (last.calls[i].fn \in {"execute", "ensureConnected"} /\ last.calls[i].pre)
      => ( /\ last.calls[i].res = "disposed"
           /\ ~last.calls[i].opened
           /\ ~last.calls[i].wrote )

\* C3 witness: execute was invoked on a disposed session.
C3_Witness ==
  \E i \in 1..Len(last.calls) : last.calls[i].fn = "execute" /\ last.calls[i].pre

\* C4: the onDispose callback of a session has run exactly once whenever the
\* session is disposed, and never runs a second time.
C4_NotifiedOnce ==
  /\ last.notify[2] <= 1
  /\ \A o \in DOMAIN sessions : sessions[o].disposed => sessions[o].notified = 1

\* C5: a disposed session stays disposed and holds no connection, no shell
\* and no pending command.
C5_DisposedIsTerminal ==
  /\ [](\A o \in DOMAIN sessions :
         sessions[o].disposed =>
           sessions[o].conn = 0 /\ sessions[o].shell = 0 /\ ~sessions[o].pendingCommand.set)
  /\ [][\A o \in DOMAIN sessions : sessions[o].disposed => DisposedNext(o)]_vars

\* C6: a session never has two connection attempts under way at once.
C6_SingleAttempt ==
  \A o \in DOMAIN sessions : Cardinality(Attempts(o)) <= 1

\* C7: when the connect or the shell request of an awaited attempt fails, the
\* session is disposed in that step, its registry entry is gone, and the
\* waiting caller gets the error.
C7_ConnectFailureDisposes ==
  [][\A c \in DOMAIN conns, err \in Errors :
       ( /\ conns[c].waiting
         /\ \/ ShellFailed(c, err)
            \/ ConnError(c, err) /\ conns[c].phase \in {"connecting", "shellReq"} )
       => ( /\ last'.res = err
            /\ DisposedNext(conns[c].owner)
            /\ activeSessions'[sessions[conns[c].owner].id] # conns[c].owner )]_vars

\* C8: when a connected session gets 'error' or 'end' from its connection or
\* 'close' from its shell stream, it is disposed in that step.
C8_TransportEventDisposes ==
  [][\A c \in DOMAIN conns :
       ( /\ conns[c].owner # 0
         /\ Connected(sessions[conns[c].owner])
         /\ c \in {sessions[conns[c].owner].conn, sessions[conns[c].owner].shell}
         /\ \/ ConnEnd(c)
            \/ StreamClose(c)
            \/ \E err \in Errors : ConnError(c, err) )
       => DisposedNext(conns[c].owner)]_vars

\* The registry lists under id a session that has lost its transport: it has
\* no connection, no shell and no attempt under way.
Stranded(id) ==
  /\ activeSessions[id] # 0
  /\ sessions[activeSessions[id]].conn = 0
  /\ sessions[activeSessions[id]].shell = 0
  /\ \A c \in DOMAIN conns : conns[c].owner # activeSessions[id]

\* C9: a registered session that has lost its transport is eventually removed
\* from the registry.
C9_EventuallyRemoved ==
  \A id \in SessionIds : Stranded(id) ~> (activeSessions[id] = 0)

\* C10: a connection or shell-request error that arrives while a command is
\* pending rejects that command with that very error; no step settles a
\* command's promise a second time.
C10_RejectedWithTransportError ==
  [][ /\ last'.settle.count <= 1
      /\ \A c \in DOMAIN conns, err \in Errors :
           ( /\ ConnError(c, err) \/ ShellFailed(c, err)
             /\ sessions[conns[c].owner].pendingCommand.set )
           => ( /\ last'.settle.how = "rejected"
                /\ last'.settle.err = err
                /\ last'.settle.o = conns[c].owner
                /\ last'.settle.count = 1
                /\ (sessions'[conns[c].owner].used
                      => ~sessions'[conns[c].owner].pendingCommand.set) )]_vars

\* C10 witness: a pending command has just been rejected with a connection error.
C10_Witness ==
  /\ last.settle.how = "rejected"
  /\ last.settle.err \in Errors
  /\ last.settle.count = 1

\* C11: when the inactivity timer of a session fires, the session is disposed
\* and the registry no longer maps its id to it; and a start-session or
\* getOrCreateSession for an id the registry does not hold registers a session
\* object that did not exist before, not disposed, with an SSHClient of its
\* own that did not exist before either.
C11_TimerRemovesThenFresh ==
  [][ /\ \A o \in DOMAIN sessions :
           TimerFire(o) => ( /\ DisposedNext(o)
                             /\ \A id \in SessionIds : activeSessions'[id] # o )
      /\ \A id \in SessionIds, cmd \in Commands :
           ( /\ StartSession(id) \/ ExecSshCommand(id, cmd)
             /\ activeSessions[id] = 0 )
           => LET n == activeSessions'[id]
              IN /\ n # 0
                 /\ ~sessions[n].used
                 /\ sessions'[n].used /\ ~sessions'[n].disposed
                 /\ sessions'[n].conn # 0
                 /\ conns[sessions'[n].conn].phase = "free"
                 /\ conns'[sessions'[n].conn].owner = n ]_vars

\* C11 witness: the timer of a registered session has just fired (the one
\* step that disposes a session and returns nothing to a caller), and the id
\* is free again.
C11_Witness ==
  /\ last.notify[2] = 1
  /\ last.res = "none"
  /\ \A id \in SessionIds : activeSessions[id] = 0

\* C12: in every reachable state a disposed session has no inactivity timer
\* armed.
C12_NoTimerAfterDisposal ==
  \A o \in DOMAIN sessions : sessions[o].disposed => ~sessions[o].inactivityTimer

\* C13: the inactivity timer is armed by the step in which a connect succeeds
\* and by the step in which a command completes, whatever its exit code; and
\* an armed timer was always set, for the whole timeout, no earlier than the
\* session's last successful connect or command completion, so that when it
\* fires a whole timeout has passed since then.
C13_TimerRearmed ==
  /\ [](\A o \in DOMAIN sessions :
         /\ sessions[o].inactivityTimer => sessions[o].sinceArmed = 0
         /\ (last.settle.how = "resolved" /\ last.settle.o = o) => sessions[o].inactivityTimer)
  /\ [][\A c \in DOMAIN conns :
         ShellOpened(c) => sessions'[conns[c].owner].inactivityTimer]_vars

\* C13 witness: a command has just completed with a non-zero exit code and
\* the timer of its session is armed.
C13_Witness ==
  /\ last.settle.how = "resolved"
  /\ last.settle.exitCode # 0
  /\ sessions[last.settle.o].inactivityTimer

\* C14: the step in which a command completes with a non-zero exit code hands
\* the tool's caller an error with that exit code and the output, and leaves
\* the session as usable as it was: its disposed flag, its registry entry, its
\* connection and its shell are unchanged and its slot is free; and an exec on
\* a registered, connected session with a free slot is accepted.
C14_NonZeroExitKeepsSession ==
  [][ /\ \A c \in DOMAIN conns, code \in ExitCodes \ {"0"} :
           StreamMarker(c, code)
           => LET o == conns[c].owner
              IN /\ last'.res = "error"
                 /\ last'.settle.how = "resolved"
                 /\ last'.settle.o = o
                 /\ last'.settle.exitCode = DigitVal(code)
                 /\ last'.settle.output = TrimEnd(RemoveAll(sessions[o].buffer, CR))
                 /\ sessions'[o].used
                 /\ sessions'[o].disposed = sessions[o].disposed
                 /\ activeSessions' = activeSessions
                 /\ sessions'[o].conn = sessions[o].conn
                 /\ sessions'[o].shell = sessions[o].shell
                 /\ ~sessions'[o].pendingCommand.set
      /\ \A id \in SessionIds, cmd \in Commands :
           ( /\ Exec(id, cmd)
             /\ activeSessions[id] # 0
             /\ Connected(sessions[activeSessions[id]])
             /\ ~sessions[activeSessions[id]].pendingCommand.set )
           => ( /\ last'.res = "accepted"
                /\ sessions'[activeSessions[id]].pendingCommand.set ) ]_vars

\* C14 witness: a command has just completed with a non-zero exit code, the
\* tool has reported the error, and the session is still registered,
\* connected, not disposed and free for the next exec.
C14_Witness ==
  \E id \in SessionIds :
    /\ activeSessions[id] # 0
    /\ last.res = "error"
    /\ last.settle.exitCode # 0
    /\ Connected(sessions[activeSessions[id]])
    /\ ~sessions[activeSessions[id]].disposed
    /\ ~sessions[activeSessions[id]].pendingCommand.set

IsOut(t) == t = Out

\* C15: a command completes with exactly the text it printed, trailing
\* whitespace trimmed, and with the exit code its marker line reports; nothing
\* that arrived while no command was pending is part of the result.
C15_ExactOutput ==
  [][\A c \in DOMAIN conns, code \in ExitCodes :
       StreamMarker(c, code)
       => ( /\ last'.settle.how = "resolved"
            /\ last'.settle.output = TrimEnd(SelectSeq(sessions[conns[c].owner].buffer, IsOut))
            /\ last'.settle.exitCode = DigitVal(code) )]_vars

\* The position in the text of the newline that ends the marker line.
MarkerLineEnd(w) == Len(w.out) + Len(Marker) + Len(w.code) + 1

\* The state processPending leaves when the whole text is in the buffer of
\* session o at once, the session being as it was when the command's answer
\* began.
InOneChunk(o) ==
  processPending([State EXCEPT !.sess[o] = [Executing(sessions[o].id, sessions[o].lastCommand)
                                              EXCEPT !.buffer = WireText(wire)]], o)

\* C16: completion does not depend on chunking.  However the text of a
\* command's answer is cut into chunks, the command is pending and unsettled
\* as long as the newline that follows the marker has not arrived; the chunk
\* that brings that newline, and no other chunk, settles it; it is settled
\* once, with the output and the exit code that the whole text arriving as
\* one chunk gives; and what is left in the buffer is what is left in that
\* case, as far as it has arrived.
C16_ChunkingIndependent ==
  \A id \in SessionIds :
    LET o == activeSessions[id]
        s == sessions[o]
        end == MarkerLineEnd(wire)
        whole == InOneChunk(o)
    IN /\ o # 0
       /\ (last.settle.how # "none") = (wire.cut < end /\ end <= wire.pos)
       /\ last.settle.how # "none" =>
             /\ last.settle = whole.settle
             /\ last.settle.how = "resolved"
             /\ last.settle.count = 1
       /\ wire.pos < end =>
             /\ s.pendingCommand.set
             /\ s.unsettled = 1
             /\ s.buffer = SubSeq(WireText(wire), 1, wire.pos)
       /\ wire.pos >= end =>
             /\ ~s.pendingCommand.set
             /\ s.unsettled = 0
             /\ s.buffer = SubSeq(whole.sess[o].buffer, 1, wire.pos - end)

\* The marker arrived in two chunks, cut between its prefix and its unique
\* part, and the second chunk, which also brought the exit code and the
\* newline but not all that follows, has completed a command with output.
C16_Witness ==
  /\ last.settle.how = "resolved"
  /\ last.settle.output # <<>>
  /\ wire.out # <<>>
  /\ wire.cut = Len(wire.out) + 1
  /\ wire.pos = MarkerLineEnd(wire)
  /\ wire.pos < Len(WireText(wire))

\* C17: a command that produces no output completes normally.  When the
\* marker line of the pending command arrives and nothing has arrived on the
\* stream while the command was pending, execute resolves with the empty
\* output and the exit code of the marker line.
C17_NoOutputIsEmpty ==
  [][\A c \in DOMAIN conns, code \in ExitCodes :
       ( /\ StreamMarker(c, code)
         /\ SelectSeq(sessions[conns[c].owner].buffer, IsOut) = <<>> )
       => ( /\ last'.settle.how = "resolved"
            /\ last'.settle.output = <<>>
            /\ last'.settle.exitCode = DigitVal(code) )]_vars

\* The integer each text of ExitCodeTexts denotes; 0 for the empty text and
\* for the texts that are no number.
ExitCodeOf(text) ==
  CASE text = <<"0">> -> 0
    [] text = <<"7">> -> 7
    [] text = <<"1", "2">> -> 12
    [] text = <<"-", "1">> -> 0 - 1
    [] text = <<"7", CR>> -> 7
    [] text = <<" ", "3">> -> 3
    [] text \in {<<>>, <<" ">>, <<"x">>, <<"-">>} -> 0

\* C18: the exit code is the integer parsed from the text between the marker
\* and the next newline, and 0 when that text is empty or no number.  The
\* chunk that brings the newline after the marker resolves the command (it
\* does not reject it), and the exit code of the result is the integer the
\* text denotes, or 0 for the empty text and for a text that is no number.
C18_ExitCodeParsed ==
  /\ (wire.cut < MarkerLineEnd(wire) /\ MarkerLineEnd(wire) <= wire.pos)
       => last.settle.how = "resolved"
  /\ last.settle.how # "none"
       => ( /\ last.settle.how = "resolved"
            /\ last.settle.err = NoErr
            /\ last.settle.exitCode = ExitCodeOf(wire.code) )

\* A command whose marker line carries a text that is no number has been
\* resolved with exit code 0.
C18_Witness ==
  /\ wire.code = <<"x">>
  /\ last.settle.how = "resolved"
  /\ last.settle.exitCode = 0
  /\ last.res = "content"

\* C19: start-session with an id that is in the registry fails with the
\* 'already exists' error and changes nothing: the registry, every session
\* (its disposed flag, connection, pending command, buffer, timer) and every
\* connection are as before, and neither ensureConnected nor execute is
\* called.  The handler is taken from the point where getHostConfig has
\* returned, so an overlapping start-session is one whose connect is still
\* in progress.
C19_StartExistingRefused ==
  [][\A id \in SessionIds :
       (StartSession(id) /\ activeSessions[id] # 0)
       => ( /\ last'.res = "exists"
            /\ last'.calls = <<>>
            /\ last'.settle = NoSettle
            /\ last'.notify = <<0, 0>>
            /\ activeSessions' = activeSessions
            /\ sessions' = sessions
            /\ conns' = conns )]_vars

\* A start-session has just been refused with 'already exists' while the
\* start-session that registered the id is still waiting for its connect.
C19_Witness ==
  \E id \in SessionIds, c \in DOMAIN conns :
    /\ last.res = "exists"
    /\ activeSessions[id] # 0
    /\ conns[c].owner = activeSessions[id]
    /\ conns[c].waiting
    /\ conns[c].kind = "start"
    /\ ~sessions[activeSessions[id]].disposed

\* C20: exec with an id that is not in the registry fails with the 'does not
\* exist' error and changes no state: the registry, every session object
\* and every connection are as before, no session is created and no
\* connection is opened.
C20_ExecUnknownRefused ==
  [][\A id \in SessionIds, cmd \in Commands :
       (Exec(id, cmd) /\ activeSessions[id] = 0)
       => ( /\ last'.res = "notFound"
            /\ last'.calls = <<>>
            /\ last'.settle = NoSettle
            /\ last'.notify = <<0, 0>>
            /\ activeSessions' = activeSessions
            /\ sessions' = sessions
            /\ conns' = conns )]_vars

\* A call has just been refused with 'does not exist' for an id that is not
\* registered while a session object closed earlier still has a connection
\* whose shell request is unanswered.
C20_Witness ==
  \E id \in SessionIds, c \in DOMAIN conns :
    /\ last.res = "notFound"
    /\ activeSessions[id] = 0
    /\ conns[c].phase = "shellReq"
    /\ sessions[conns[c].owner].disposed

\* C21: close-session with an id that is not in the registry fails with
\* 'does not exist' and changes nothing.  A close-session with a registered
\* id succeeds, leaves the session disposed and the id absent.  While an id
\* is absent every exec and close-session for it fails with 'does not exist',
\* and the id becomes registered again only by a call that constructs a
\* session for it (start-session, or getOrCreateSession from execSshCommand).
C21_CloseRemoves ==
  [][\A id \in SessionIds :
       /\ (CloseSession(id) /\ activeSessions[id] = 0)
            => ( /\ last'.res = "notFound"
                 /\ last'.calls = <<>>
                 /\ activeSessions' = activeSessions
                 /\ sessions' = sessions
                 /\ conns' = conns )
       /\ (CloseSession(id) /\ activeSessions[id] # 0)
            => ( /\ last'.res = "ok"
                 /\ activeSessions'[id] = 0
                 /\ DisposedNext(activeSessions[id]) )
       /\ \A cmd \in Commands :
            (Exec(id, cmd) /\ activeSessions[id] = 0)
            => (last'.res = "notFound" /\ activeSessions'[id] = 0)
       /\ (activeSessions[id] = 0 /\ activeSessions'[id] # 0)
            => ( /\ StartSession(id) \/ \E cmd \in Commands : ExecSshCommand(id, cmd)
                 /\ ~sessions[activeSessions'[id]].used )]_vars

\* A close-session has just succeeded and the registry has been notified:
\* the id is absent, the session object, if it can still act, is disposed,
\* and its connection has been ended.
C21_Witness ==
  \E id \in SessionIds :
    /\ last.res = "ok"
    /\ last.notify[2] = 1
    /\ activeSessions[id] = 0
    /\ \A o \in DOMAIN sessions : sessions[o].used => sessions[o].disposed
    /\ \A c \in DOMAIN conns : conns[c].phase = "free"

\* C22: disposal rejects the pending command with 'SSH session closed'.
\* When close-session or the inactivity timer disposes a session that is not
\* yet disposed and has a command pending, that step rejects the command,
\* once, with the 'SSH session closed' error; it does not resolve it, and
\* after the step the session is disposed with no command pending and no
\* promise of execute unsettled.
C22_DisposalRejectsPending ==
  [][\A o \in DOMAIN sessions :
       ( /\ sessions[o].used
         /\ ~sessions[o].disposed
         /\ sessions[o].pendingCommand.set
         /\ TimerFire(o) \/ \E id \in SessionIds : activeSessions[id] = o /\ CloseSession(id) )
       => ( /\ last'.settle.o = o
            /\ last'.settle.how = "rejected"
            /\ last'.settle.err = Closed
            /\ last'.settle.count = 1
            /\ DisposedNext(o)
            /\ sessions'[o].used =>
                  ( /\ ~sessions'[o].pendingCommand.set
                    /\ sessions'[o].unsettled = 0 ) )]_vars

\* A close-session has just disposed a session whose command was pending:
\* the command has been rejected with 'SSH session closed'.
C22_Witness ==
  /\ last.res = "ok"
  /\ last.notify[2] = 1
  /\ last.settle.how = "rejected"
  /\ last.settle.err = Closed
  /\ last.settle.count = 1

\* The step is a tool call or an event of session o.
ActsOn(o) ==
  \/ TimerFire(o)
  \/ \E err \in WriteErrors \cup {NoErr} : WriteCallback(o, err) \/ StaleWriteCallback(o, err)
  \/ \E id \in DOMAIN activeSessions :
       /\ activeSessions[id] = o
       /\ CloseSession(id) \/ \E cmd \in Commands : Exec(id, cmd)
  \/ \E c \in DOMAIN conns :
       /\ conns[c].owner = o
       /\ \/ ConnEnd(c)
          \/ StreamClose(c)
          \/ StreamOutput(c)
          \/ \E err \in Errors : ConnError(c, err)
          \/ \E code \in ExitCodes : StreamMarker(c, code)

\* C23: sessions are independent.  A tool call or an event of one session
\* (exec, data arrival, completion, a write callback, the timer firing, a
\* transport error, end or close, close-session) leaves every other session
\* object, every connection of another session and the registry entry of
\* every other id as they were, and settles no command of another session.
C23_SessionsIndependent ==
  [][\A o \in DOMAIN sessions :
       (sessions[o].used /\ ActsOn(o))
       => ( /\ \A p \in DOMAIN sessions \ {o} : sessions'[p] = sessions[p]
            /\ \A c \in DOMAIN conns :
                 (conns[c].owner \notin {0, o}) => conns'[c] = conns[c]
            /\ \A id \in DOMAIN activeSessions :
                 id # sessions[o].id => activeSessions'[id] = activeSessions[id]
            /\ last'.settle.o \in {0, o}
            /\ last'.notify[1] \in {0, o} )]_vars

\* Commands are pending on two sessions at once, and the one of the first
\* session has just received output that the other has not.
C23_Witness ==
  \E o, p \in DOMAIN sessions :
    /\ o # p
    /\ sessions[o].pendingCommand.set
    /\ sessions[p].pendingCommand.set
    /\ sessions[o].buffer = <<Out>>
    /\ sessions[p].buffer = <<>>
    /\ ~sessions[o].disposed
    /\ ~sessions[p].disposed

\* C24: the disposal callback removes the registry entry of its id only if
\* the entry still maps to its own session object.  In a step in which the
\* disposal callback of session object o runs, the entry of an id that maps
\* to o is removed and every entry that maps to another object, a newer
\* session of the same id included, is left as it is.
C24_StaleDisposalKeepsNewer ==
  [][\A o \in DOMAIN sessions, id \in DOMAIN activeSessions :
       last'.notify[1] = o
       => activeSessions'[id] = IF activeSessions[id] = o THEN 0 ELSE activeSessions[id]]_vars

\* The disposal callback of an older session object has just run while a
\* newer, live session is registered under the same id, and the newer one is
\* still registered.
C24_Witness ==
  \E id \in DOMAIN activeSessions, o \in DOMAIN sessions :
    /\ last.notify[1] = o
    /\ sessions[o].used => (sessions[o].id = id /\ sessions[o].disposed)
    /\ activeSessions[id] \notin {0, o}
    /\ sessions[activeSessions[id]].id = id
    /\ ~sessions[activeSessions[id]].disposed

\* C25: no registry entry maps to a disposed session.  In every state each
\* registered id maps to a live session object of that id that is not
\* disposed; the step in which a session becomes disposed calls its disposal
\* callback for the first time and leaves no entry mapping to it; and an
\* entry that changes to a session object changes to one constructed in that
\* step, never to an object that existed before.
C25_RegistryHoldsNoDisposed ==
  /\ [](\A id \in DOMAIN activeSessions :
          activeSessions[id] # 0
          => ( /\ sessions[activeSessions[id]].used
               /\ sessions[activeSessions[id]].id = id
               /\ ~sessions[activeSessions[id]].disposed ))
  /\ [][ /\ \A o \in DOMAIN sessions :
              (sessions[o].used /\ ~sessions[o].disposed /\ DisposedNext(o))
              => ( /\ last'.notify = <<o, 1>>
                   /\ \A id \in DOMAIN activeSessions : activeSessions'[id] # o )
         /\ \A id \in DOMAIN activeSessions :
              (activeSessions'[id] # 0 /\ activeSessions'[id] # activeSessions[id])
              => ( /\ ~sessions[activeSessions'[id]].used
                   /\ ~sessions'[activeSessions'[id]].disposed ) ]_vars

\* The inactivity timer has just disposed a session that still has a write
\* callback due: its disposal callback has run once and its id is absent
\* from the registry.
C25_Witness ==
  \E o \in DOMAIN sessions :
    /\ last.notify = <<o, 1>>
    /\ last.res = "none"
    /\ sessions[o].used
    /\ sessions[o].disposed
    /\ sessions[o].staleWrites > 0
    /\ activeSessions[sessions[o].id] = 0

\* C26: the session listing depends only on non-secret data.  Two
\* registries that hold the same sessions but for the password and the
\* private key of their configurations give the same list-sessions text.
C26_ListingHidesSecrets ==
  listing.listed =>
    /\ listing.textA = listing.textB
    /\ Len(listing.textA) = IF Len(listing.a) = 0 THEN 1 ELSE Len(listing.a)

\* list-sessions has printed a session whose password and private key
\* differ between the two registries.
C26_Witness ==
  /\ listing.listed
  /\ Len(listing.a) > 0
  /\ listing.a[1].config.password = "p1"
  /\ listing.b[1].config.password = Undefined
  /\ listing.a[1].config.privateKey # listing.b[1].config.privateKey
  /\ listing.textA[1][2] = listing.a[1].id

\* C27: host ids in the stored list are unique.  Starting from a list with
\* unique ids, however add-host, edit-host and remove-host calls follow and
\* overlap, hosts.json never holds two hosts with one id; and an add-host
\* that finds its id in the list it reads fails with 'already exists' and
\* writes nothing.
C27_HostIdsUnique ==
  /\ [](UniqueIds(hostsFile.hosts))
  /\ [][\A k \in CallSlots :
          ( /\ HostRead(k, FALSE)
            /\ hostCalls[k].op = "add"
            /\ HostIndex(hostsFile.hosts, hostCalls[k].arg.id) # 0 )
          => ( /\ hostCalls'[k].result = "exists"
               /\ hostCalls'[k].pc = "done"
               /\ hostsFile' = hostsFile )]_vars

\* An add-host has failed with 'already exists' while another call is about
\* to write, and the list holds two hosts.
C27_Witness ==
  \E k, j \in CallSlots :
    /\ k # j
    /\ hostCalls[k].op = "add"
    /\ hostCalls[k].result = "exists"
    /\ hostCalls[j].pc = "open"
    /\ Len(hostsFile.hosts) = Cardinality(HostIds)
    /\ HostIndex(hostsFile.hosts, hostCalls[k].arg.id) # 0

\* C28: edit-host changes only the fields supplied, on the host with the
\* given id.  When edit-host has read the list, the list it goes on to write
\* has the same hosts in the same order, every host but the one with the id
\* as it was read, and of that host the id and every field the call omits as
\* they were read; writeHosts stores that list; and for an id that is not in
\* the list the call fails with 'does not exist' and writes nothing.  Lists
\* are compared as readHosts returns them.
C28_EditChangesOnlySupplied ==
  [][\A k \in CallSlots :
       /\ (HostRead(k, FALSE) /\ hostCalls[k].op = "edit")
            => LET arg == hostCalls[k].arg
                   before == parseHosts(hostsFile.hosts)
                   after == hostCalls'[k].hosts
                   at == HostIndex(before, arg.id)
               IN /\ hostsFile' = hostsFile
                  /\ at = 0 => ( /\ hostCalls'[k].result = "notFound"
                                 /\ hostCalls'[k].pc = "done" )
                  /\ at # 0 =>
                       ( /\ hostCalls'[k].pc = "open"
                         /\ Len(after) = Len(before)
                         /\ \A i \in DOMAIN before : i # at => after[i] = before[i]
                         /\ after[at].id = before[at].id
                         /\ arg.host = Undefined => after[at].host = before[at].host
                         /\ arg.port = 0 => after[at].port = before[at].port
                         /\ arg.username = Undefined => after[at].username = before[at].username
                         /\ arg.password = Undefined => after[at].password = before[at].password
                         /\ arg.keyPath = Undefined => after[at].keyPath = before[at].keyPath )
       /\ (HostWrite(k) /\ hostCalls[k].op = "edit")
            => ( /\ hostsFile'.state = "ok"
                 /\ parseHosts(hostsFile'.hosts) = hostCalls[k].hosts
                 /\ hostCalls'[k].result = "ok" )]_vars

\* An edit-host that supplied a new port and the empty password and omitted
\* the host name and the key path has succeeded on the first of two hosts.
C28_Witness ==
  \E k \in CallSlots :
    /\ hostCalls[k].op = "edit"
    /\ hostCalls[k].result = "ok"
    /\ hostCalls[k].arg.host = Undefined
    /\ hostCalls[k].arg.keyPath = Undefined
    /\ hostCalls[k].arg.password = ""
    /\ hostCalls[k].arg.port = 2200
    /\ Len(hostsFile.hosts) = Cardinality(HostIds)
    /\ hostsFile.hosts[1].id = hostCalls[k].arg.id
    /\ hostsFile.hosts[1].port = 2200
    /\ hostsFile.hosts[1].password = ""
    /\ hostsFile.hosts[1].keyPath = "k1"
    /\ hostsFile.hosts[1].host = "h1"

\* C29: sanitizeCommand rejects every command whose trimmed length exceeds
\* 1000 characters, rejects a command that is empty after trimming, and
\* returns every other command trimmed.
C29_LengthLimit ==
  sanitizing.result # "none" =>
    LET n == sanitizing.command.length
    IN /\ n > StatedMaxLength => sanitizing.result = "tooLong"
       /\ n = 0 => sanitizing.result = "empty"
       /\ (0 < n /\ n <= StatedMaxLength) =>
            ( /\ sanitizing.result = "ok"
              /\ sanitizing.value = [lead |-> 0, length |-> n, trail |-> 0] )

StartsWith(seq, start) ==
  Len(start) <= Len(seq) /\ SubSeq(seq, 1, Len(start)) = start

\* C30: what arrives after the newline that ends the marker line is kept for
\* the next command.  The chunk that completes a command leaves in the buffer
\* exactly what followed the marker line, and nothing of what preceded it or
\* of the marker line; a character that arrives afterwards is appended to
\* the buffer; accepting the next command and its write callbacks leave the
\* buffer as it is; and the next command completes with the output derived
\* from the buffer followed by what it printed, so that what was left over,
\* carriage returns stripped and trailing whitespace trimmed like any
\* output, is the start of that output.
C30_LeftoverKept ==
  [][\A c \in {k \in DOMAIN conns : conns[k].owner \in DOMAIN sessions} :
       LET o == conns[c].owner
           buffer == sessions[o].buffer
       IN /\ \A out \in Printed, code \in ExitCodes, tail \in Remainders :
               Answer(c, out, code, tail)
               => ( /\ last'.settle.how = "resolved"
                    /\ sessions'[o].buffer = tail
                    /\ ~sessions'[o].pendingCommand.set
                    /\ last'.settle.output = TrimEnd(RemoveAll(buffer \o out, CR))
                    /\ StartsWith(last'.settle.output, TrimEnd(RemoveAll(buffer, CR))) )
          /\ StreamOutput(c)
               => ( /\ Len(sessions'[o].buffer) = Len(buffer) + 1
                    /\ StartsWith(sessions'[o].buffer, buffer) )
          /\ (\/ \E id \in SessionIds, cmd \in Commands : Exec(id, cmd)
              \/ WriteCallback(o, NoErr))
               => sessions'[o].buffer = buffer]_vars

\* A command has completed with what was left after the marker line of the
\* command before it at the start of its output, and its own answer has
\* left a remainder in turn.
C30_Witness ==
  /\ last.settle.how = "resolved"
  /\ last.settle.output = <<Noise, " ", Out>>
  /\ \E o \in DOMAIN sessions :
       sessions[o].used /\ sessions[o].buffer = <<Noise>> /\ ~sessions[o].pendingCommand.set

C32_CallerReleased == ~last.lost

\* C33: ensureConnected on a connected session returns at once and changes
\* nothing.  For a session that is not disposed and has a connection and a
\* shell, with or without a command pending, the call returns without
\* suspending and leaves every session, every connection and the registry as
\* they were; when exec or execSshCommand makes the call, the step opens no
\* connection, and if a command is pending (the call is then all that
\* execute does before it refuses) the sessions are unchanged.
C33_ConnectedIsNoOp ==
  [][\A id \in SessionIds, cmd \in Commands :
       LET o == activeSessions[id]
           E == ensureConnected(State, o, "exec", cmd)
           returned == Call("ensureConnected", o, FALSE, "ready", FALSE, FALSE)
       IN (o # 0 /\ Connected(sessions[o]) /\ ~sessions[o].disposed)
          => ( /\ E.res = "ready"
               /\ ~E.full
               /\ E.sess = sessions
               /\ E.conns = conns
               /\ E.reg = activeSessions
               /\ Exec(id, cmd)
                    => ( /\ last'.calls[1] = returned
                         /\ conns' = conns
                         /\ activeSessions' = activeSessions
                         /\ sessions[o].pendingCommand.set => sessions' = sessions )
               /\ ExecSshCommand(id, cmd)
                    => ( /\ last'.calls[1] = returned
                         /\ last'.calls[2] = returned
                         /\ conns' = conns
                         /\ activeSessions' = activeSessions
                         /\ sessions[o].pendingCommand.set => sessions' = sessions ) )]_vars

\* ensureConnected has returned at once on a session with a command pending:
\* execute then refused the second command.
C33_Witness ==
  /\ Len(last.calls) = 2
  /\ last.calls[1] = Call("ensureConnected", last.calls[1].o, FALSE, "ready", FALSE, FALSE)
  /\ last.calls[2].fn = "execute"
  /\ last.res = "busy"
  /\ \E o \in DOMAIN sessions :
       sessions[o].used /\ Connected(sessions[o]) /\ sessions[o].pendingCommand.set

\* C34: whenever getOrCreateSession returns successfully for an id, the
\* registry maps the id to the returned session and the session is Ready.
\* getOrCreateSession returns when the ensureConnected it awaits returns: at
\* once in execSshCommand on a connected session, or when the shell callback
\* resolves the promise its caller (start-session, execSshCommand) waits on.
\* After the step the session is registered under its id, not disposed, has
\* a connection and a shell, and its inactivity timer is armed.
C34_ReturnedIsReady ==
  [][ /\ \A c \in DOMAIN conns :
           ( /\ ShellOpened(c)
             /\ conns[c].waiting
             /\ conns[c].kind \in {"start", "legacy"} )
           => LET o == conns[c].owner
              IN /\ activeSessions'[sessions[o].id] = o
                 /\ sessions'[o].used
                 /\ ~sessions'[o].disposed
                 /\ Connected(sessions'[o])
                 /\ sessions'[o].inactivityTimer
      /\ \A id \in SessionIds, cmd \in Commands :
           ( /\ ExecSshCommand(id, cmd)
             /\ Len(last'.calls) > 0
             /\ last'.calls[1].res = "ready" )
           => LET o == last'.calls[1].o
              IN /\ activeSessions'[id] = o
                 /\ sessions'[o].used
                 /\ ~sessions'[o].disposed
                 /\ Connected(sessions'[o])
                 /\ sessions'[o].inactivityTimer ]_vars

\* C35: a write failure rejects the command that issued the write, and no
\* other.  When the callback of a write of the command in the slot reports an
\* error, that command is rejected with that error and the slot is freed;
\* the callback of a write of a command that has left the slot settles
\* nothing and leaves the slot as it is.
C35_WriteFailureRejectsIssuer ==
  [][\A o \in DOMAIN sessions, err \in WriteErrors :
       /\ WriteCallback(o, err)
            => ( /\ last'.settle.how = "rejected"
                 /\ last'.settle.o = o
                 /\ last'.settle.err = err
                 /\ ~sessions'[o].used \/ ~sessions'[o].pendingCommand.set )
       /\ StaleWriteCallback(o, err)
            => ( /\ last'.settle.how = "none"
                 /\ sessions[o].pendingCommand.set
                      => sessions'[o].pendingCommand = sessions[o].pendingCommand )]_vars

\* The stored list shows what a successful call does to the host with its
\* id: add-host has put the host there, edit-host has set its host name,
\* remove-host has left no host with the id.
Reflects(hosts, call) ==
  LET at == HostIndex(hosts, call.arg.id)
  IN CASE call.op = "add" -> at # 0 /\ hosts[at] = call.arg
       [] call.op = "edit" -> at # 0 /\ hosts[at].host = call.arg.host
       [] call.op = "remove" -> at = 0
       [] OTHER -> TRUE

\* C36: no successful host-store update is lost.  When two host calls on
\* different ids, made while no other call runs, have both finished with
\* success, hosts.json reflects both.
C36_NoLostUpdate ==
  \A k, j \in CallSlots :
    ( /\ k # j
      /\ hostCalls[k].pc = "done" /\ hostCalls[k].result = "ok"
      /\ hostCalls[j].pc = "done" /\ hostCalls[j].result = "ok"
      /\ hostCalls[k].arg.id # hostCalls[j].arg.id )
    => ( /\ hostsFile.state = "ok"
         /\ Reflects(hostsFile.hosts, hostCalls[k])
         /\ Reflects(hostsFile.hosts, hostCalls[j]) )

\* C37: the promise of the one-shot execSshCommand is settled exactly once,
\* by the first of timeout expiry, exec error, stream close and connection
\* error.  resolve or reject is never called a second time; whichever of
\* the four occurs while the promise is unsettled settles it, with its own
\* outcome; once it is settled none of them, nor anything else, changes the
\* result or settles it again; and when one of the other three settles it,
\* the timeout timer is cleared and so never fires.
C37_SettledOnce ==
  /\ [](oneShot.settled <= 1)
  /\ [](oneShot.isResolved <=> oneShot.settled = 1)
  /\ [](oneShot.result \in {"execError", "stderrError", "content", "connError"}
          => oneShot.timeout = "cleared")
  /\ [](oneShot.result = "timedOut" => oneShot.timeout = "fired")
  /\ [][ /\ (oneShot.settled = 0 /\ OneShotTimeout)
              => (oneShot'.settled = 1 /\ oneShot'.result = "timedOut")
         /\ (oneShot.settled = 0 /\ OneShotExec(TRUE))
              => ( /\ oneShot'.settled = 1
                   /\ oneShot'.result = "execError"
                   /\ oneShot'.timeout = "cleared" )
         /\ (oneShot.settled = 0 /\ OneShotStreamClose)
              => ( /\ oneShot'.settled = 1
                   /\ oneShot'.result = IF oneShot.stderr THEN "stderrError" ELSE "content"
                   /\ oneShot'.timeout = "cleared" )
         /\ (oneShot.settled = 0 /\ OneShotConnError)
              => ( /\ oneShot'.settled = 1
                   /\ oneShot'.result = "connError"
                   /\ oneShot'.timeout = "cleared" )
         /\ oneShot.settled = 1
              => ( /\ oneShot'.settled = 1
                   /\ oneShot'.result = oneShot.result
                   /\ oneShot'.timeout = oneShot.timeout ) ]_vars

\* The timeout has rejected the promise, and the stream's close and an error
\* of the connection have come after it.
C37_Witness ==
  /\ oneShot.settled = 1
  /\ oneShot.result = "timedOut"
  /\ oneShot.conn = "idle"
  /\ oneShot.stdout
  /\ oneShot.errors > 0

====
